---- MODULE Spec2Model ----
(***************************************************************************)
(* A model of the trading decision engine of trading_algorithm:            *)
(* calculate_indicators and backtest_trading of backtesting.py.  Spec runs *)
(* the loop of backtest_trading over joint series drawn row by row;        *)
(* SpecPair runs calculate_indicators and the loop over pairs of complete  *)
(* joint series.                                                           *)
(*                                                                         *)
(* Numbers.  A price is kept as an integer number of cents, the decimal    *)
(* value found in the input; NaN stands for a missing value.  The          *)
(* program holds prices as IEEE-754 binary64 values, and its rules compare *)
(* a price with the binary64 product of a price (or indicator) and a       *)
(* decimal literal.  Those products and comparisons are computed here bit  *)
(* for bit (round to nearest, ties to even) on arbitrary-size naturals     *)
(* kept as limb sequences.  Indicator values and the fund/bank accounting  *)
(* are kept as exact fractions.                                            *)
(***************************************************************************)
EXTENDS Integers, Sequences, FiniteSets, TLC

(***************************************************************************)
(* Arbitrary-size naturals: little-endian sequences of 14-bit limbs.       *)
(***************************************************************************)
Limb == 2^14

RECURSIVE BigNorm(_)
BigNorm(a) ==
    IF a = <<>> THEN <<>>
    ELSE IF a[Len(a)] = 0 THEN BigNorm(SubSeq(a, 1, Len(a) - 1))
    ELSE a

RECURSIVE BigFromInt(_)
BigFromInt(n) ==
    IF n = 0 THEN <<>> ELSE <<n % Limb>> \o BigFromInt(n \div Limb)

\* a * k + c for a small multiplier k and carry c.
RECURSIVE BigMulSmall(_, _, _)
BigMulSmall(a, k, c) ==
    IF a = <<>> THEN BigFromInt(c)
    ELSE LET t == a[1] * k + c
         IN  <<t % Limb>> \o BigMulSmall(Tail(a), k, t \div Limb)

RECURSIVE BigAdd(_, _, _)
BigAdd(a, b, c) ==
    IF a = <<>> /\ b = <<>> THEN BigFromInt(c)
    ELSE LET x == IF a = <<>> THEN 0 ELSE a[1]
             y == IF b = <<>> THEN 0 ELSE b[1]
             t == x + y + c
         IN  <<t % Limb>> \o BigAdd(IF a = <<>> THEN <<>> ELSE Tail(a),
                                    IF b = <<>> THEN <<>> ELSE Tail(b),
                                    t \div Limb)

RECURSIVE BigMul(_, _)
BigMul(a, b) ==
    IF b = <<>> THEN <<>>
    ELSE BigAdd(BigMulSmall(a, b[1], 0), <<0>> \o BigMul(a, Tail(b)), 0)

\* Quotient and remainder of a by a small divisor d, from the top limb down.
RECURSIVE BigDivSmall(_, _)
BigDivSmall(a, d) ==
    IF a = <<>> THEN [q |-> <<>>, r |-> 0]
    ELSE LET hi == BigDivSmall(Tail(a), d)
             t  == hi.r * Limb + a[1]
         IN  [q |-> <<t \div d>> \o hi.q, r |-> t % d]

\* -1, 0, 1 as a < b, a = b, a > b (both normalised).
RECURSIVE BigCmp(_, _)
BigCmp(a, b) ==
    IF Len(a) # Len(b) THEN (IF Len(a) < Len(b) THEN -1 ELSE 1)
    ELSE IF a = <<>> THEN 0
    ELSE IF a[Len(a)] # b[Len(b)] THEN (IF a[Len(a)] < b[Len(b)] THEN -1 ELSE 1)
    ELSE BigCmp(SubSeq(a, 1, Len(a) - 1), SubSeq(b, 1, Len(b) - 1))

RECURSIVE IntBits(_)
IntBits(n) == IF n = 0 THEN 0 ELSE 1 + IntBits(n \div 2)

BigBits(a) ==
    LET n == BigNorm(a)
    IN  IF n = <<>> THEN 0 ELSE 14 * (Len(n) - 1) + IntBits(n[Len(n)])

\* a shifted right by n bits; sticky tells whether a one was shifted out.
BigShiftRight(a, n) ==
    LET k    == n \div 14
        low  == SubSeq(a, 1, IF k < Len(a) THEN k ELSE Len(a))
        rest == SubSeq(a, k + 1, Len(a))
        d    == BigDivSmall(rest, 2^(n % 14))
    IN  [q |-> BigNorm(d.q),
         sticky |-> d.r # 0 \/ \E i \in 1..Len(low) : low[i] # 0]

BigOdd(a) == a # <<>> /\ a[1] % 2 = 1

(***************************************************************************)
(* binary64.  A positive double is [m, e]: the value m * 2^e with a        *)
(* 53-bit m.  All values of the program modelled this way are positive     *)
(* and in the normal range.                                                *)
(***************************************************************************)
\* The double nearest to (q + f) * 2^e0, where q has at least 54 bits and
\* sticky tells whether the fraction f in [0, 1) is nonzero.
RoundTo53(q, sticky, e0) ==
    LET s    == BigBits(q) - 53
        a    == BigShiftRight(q, s - 1)
        h    == BigDivSmall(a.q, 2)
        m    == BigNorm(h.q)
        up   == h.r = 1 /\ (a.sticky \/ sticky \/ BigOdd(m))
        m1   == IF up THEN BigNorm(BigAdd(m, <<1>>, 0)) ELSE m
    IN  IF BigBits(m1) = 54
        THEN [m |-> BigNorm(BigDivSmall(m1, 2).q), e |-> e0 + s + 1]
        ELSE [m |-> m1, e |-> e0 + s]

\* The double a decimal literal or parsed input num/den denotes.
ToDouble(num, den) ==
    LET d == BigDivSmall(<<0, 0, 0, 0, 0, 0>> \o BigFromInt(num), den)
    IN  RoundTo53(BigNorm(d.q), d.r # 0, -84)

FMul(x, y) == RoundTo53(BigNorm(BigMul(x.m, y.m)), FALSE, x.e + y.e)

FCmp(x, y) ==
    IF x.e # y.e THEN (IF x.e < y.e THEN -1 ELSE 1) ELSE BigCmp(x.m, y.m)

FGe(x, y) == FCmp(x, y) >= 0
FLt(x, y) == FCmp(x, y) < 0
FGt(x, y) == FCmp(x, y) > 0


(***************************************************************************)
(* Exact fractions [n, d] in lowest terms, d > 0, for the accounting.      *)
(***************************************************************************)
RECURSIVE GCD(_, _)
GCD(a, b) == IF b = 0 THEN a ELSE GCD(b, a % b)

Abs(a) == IF a < 0 THEN -a ELSE a

Frac(n, d) ==
    LET g == GCD(Abs(n), d) IN [n |-> n \div g, d |-> d \div g]

FracMul(a, b) ==
    LET g1 == GCD(Abs(a.n), b.d)
        g2 == GCD(Abs(b.n), a.d)
    IN  Frac((a.n \div g1) * (b.n \div g2), (a.d \div g2) * (b.d \div g1))

FracAdd(a, b) ==
    LET g == GCD(a.d, b.d)
    IN  Frac(a.n * (b.d \div g) + b.n * (a.d \div g), a.d * (b.d \div g))

FracSub(a, b) == FracAdd(a, [n |-> -b.n, d |-> b.d])

(***************************************************************************)
(* Values.  NaN is a missing price, NaNFrac a missing indicator, None the  *)
(* unset purchase_price or last_sell_date.                                 *)
(***************************************************************************)
NaN == -1
None == -2
NaNFrac == [n |-> 0, d |-> 0]

isna(v) == v = NaNFrac

\* The double a price in cents denotes.
PriceDouble(c) == ToDouble(c, 100)
\* The double an indicator (a fraction of cents) denotes: the one nearest
\* to its exact value (the running sums of pandas may differ from it in the
\* last bit, which no comparison of the model's series is close enough to
\* see).
IndDouble(v) == ToDouble(v.n, v.d * 100)

(***************************************************************************)
(* calculate_indicators                                                    *)
(***************************************************************************)
N == 30

RECURSIVE SumSeq(_)
SumSeq(s) == IF s = <<>> THEN 0 ELSE s[1] + SumSeq(Tail(s))

\* Mutant: np.arange(30, 0, -1), the oldest day weighs most.
weights_desc == [k \in 1..N |-> N + 1 - k]

\* np.arange(1, 31)
weights == [k \in 1..N |-> k]

RECURSIVE Dot(_, _)
Dot(xs, ws) ==
    IF xs = <<>> THEN 0 ELSE xs[1] * ws[1] + Dot(Tail(xs), Tail(ws))

\* Mutant: window=29 (an off-by-one window).
RollingWindow_Short(col, t) ==
    IF t < N - 1 THEN <<>>
    ELSE LET w == SubSeq(col, t - N + 2, t)
         IN  IF \E i \in 1..(N - 1) : w[i] = NaN THEN <<>> ELSE w

\* The window of col that Series.rolling(window=30, min_periods=30) gives
\* position t: the N values ending at t, or none when fewer than N values
\* exist or one of them is missing.
RollingWindow(col, t) ==
    IF t < N THEN <<>>
    ELSE LET w == SubSeq(col, t - N + 1, t)
         IN  IF \E i \in 1..N : w[i] = NaN THEN <<>> ELSE w

\* rolling(window=30, min_periods=30).mean() at position t.
RollingMean(col, t) ==
    LET w == RollingWindow(col, t)
    IN  IF w = <<>> THEN NaNFrac ELSE [n |-> SumSeq(w), d |-> N]

\* rolling(...).apply(lambda x: np.dot(x, weights) / weights.sum()) at t.
RollingWMA(col, t) ==
    LET w == RollingWindow(col, t)
    IN  IF w = <<>> THEN NaNFrac ELSE [n |-> Dot(w, weights), d |-> SumSeq(weights)]

\* Mutant: no shift, the indicator of day T includes day T.
Shift1_None(series, t) == series[t]

\* Mutant: shift(-1), the indicator of day T is the one of day T + 1.
Shift1_Forward(series, t) ==
    IF t + 1 \in DOMAIN series THEN series[t + 1] ELSE NaNFrac

\* Series.shift(1): position t takes the value of position t - 1.
Shift1(series, t) == IF t = 1 THEN NaNFrac ELSE series[t - 1]

Column(df, name) == [t \in 1..Len(df) |-> df[t][name]]

calculate_indicators(df) ==
    LET sma == [t \in 1..Len(df) |-> RollingMean(Column(df, "Open_tecl"), t)]
        wma == [t \in 1..Len(df) |-> RollingWMA(Column(df, "OPEN_vix"), t)]
    IN  [t \in 1..Len(df) |->
            [Date      |-> df[t].Date,
             Open_tecl |-> df[t].Open_tecl,
             OPEN_vix  |-> df[t].OPEN_vix,
             SMA_tecl  |-> Shift1(sma, t),
             WMA_vix   |-> Shift1(wma, t)]]

(***************************************************************************)
(* Dates are day numbers; day 0 is a Monday.                               *)
(***************************************************************************)
Weekday(d) == d % 7

\* date + pd.offsets.BDay(1): the next business day (Monday to Friday).
BDay1(d) ==
    IF Weekday(d) = 4 THEN d + 3
    ELSE IF Weekday(d) = 5 THEN d + 2
    ELSE d + 1

(***************************************************************************)
(* backtest_trading                                                        *)
(***************************************************************************)
initial_fund == 10000

\* The literals of the trading rules, as the doubles they denote, and the
\* bank's share of a profit.
SELL_MULT == ToDouble(1058, 1000)
LOW_MULT  == ToDouble(75, 100)
HIGH_MULT == ToDouble(125, 100)
VIX_MULT  == ToDouble(104, 100)
BANK_SKIM == Frac(2, 10)

\* Mutant: the position is sold as soon as the price is back at the
\* purchase price.
SellSignal_AtPurchase(tecl_price, purchase) ==
    /\ tecl_price # NaN
    /\ FGe(PriceDouble(tecl_price), PriceDouble(purchase))

\* tecl_price >= purchase_price * 1.058
SellSignal(tecl_price, purchase) ==
    /\ tecl_price # NaN
    /\ FGe(PriceDouble(tecl_price), FMul(PriceDouble(purchase), SELL_MULT))

\* Mutant: the cooldown is the next calendar day, not the next business day.
InCooldown_CalendarDay(current_date, last_sell) ==
    last_sell # None /\ current_date = last_sell + 1

\* Mutant: the cooldown lasts two business days.
InCooldown_TwoDays(current_date, last_sell) ==
    last_sell # None /\ current_date \in {BDay1(last_sell), BDay1(BDay1(last_sell))}

\* current_date == (last_sell_date + pd.offsets.BDay(1))
InCooldown(current_date, last_sell) ==
    last_sell # None /\ current_date = BDay1(last_sell)

\* tecl_price < 0.75 * sma
ImmediateSignal(tecl_price, sma) ==
    /\ tecl_price # NaN
    /\ FLt(PriceDouble(tecl_price), FMul(LOW_MULT, IndDouble(sma)))

\* tecl_price < 1.25 * sma
BelowHigh(tecl_price, sma) ==
    /\ tecl_price # NaN
    /\ FLt(PriceDouble(tecl_price), FMul(HIGH_MULT, IndDouble(sma)))

\* Mutant: the conditional rule looks back three rows.
LookBack_Three(t) == t - 3

\* The row the conditional rule looks back to from position t (positions
\* from 1): merged_df.index[pos - 4], read only when pos >= 4 (pos from 0).
LookBack(t) == t - 4

\* Mutant: an absent wma of the earlier row counts as exceeded.
VixSignal_AbsentWmaPasses(prev_row) ==
    /\ prev_row.OPEN_vix # NaN
    /\ \/ isna(prev_row.WMA_vix)
       \/ FGt(PriceDouble(prev_row.OPEN_vix), FMul(VIX_MULT, IndDouble(prev_row.WMA_vix)))

\* prev_row["OPEN_vix"] > 1.04 * prev_row["WMA_vix"]
VixSignal(prev_row) ==
    /\ prev_row.OPEN_vix # NaN
    /\ ~isna(prev_row.WMA_vix)
    /\ FGt(PriceDouble(prev_row.OPEN_vix), FMul(VIX_MULT, IndDouble(prev_row.WMA_vix)))

ConditionalSignal(df, t) ==
    /\ BelowHigh(df[t].Open_tecl, df[t].SMA_tecl)
    /\ LookBack(t) >= 1
    /\ VixSignal(df[LookBack(t)])

\* The state of the loop before its first row.
InitialState ==
    [fund |-> Frac(initial_fund, 1), bank |-> Frac(0, 1), in_position |-> FALSE,
     purchase_price |-> None, trades |-> <<>>, last_sell_date |-> None]

\* Mutant: the skim is taken out of the fund.
Sell_SkimReducesFund(s, row) ==
    LET sell_price == row.Open_tecl
        ratio  == Frac(sell_price, s.purchase_price)
        profit == FracSub(FracMul(s.fund, ratio), s.fund)
        bank1  == FracAdd(s.bank, FracMul(profit, BANK_SKIM))
        fund1  == FracSub(FracMul(s.fund, ratio), FracMul(profit, BANK_SKIM))
    IN  [fund |-> fund1, bank |-> bank1, in_position |-> FALSE,
         purchase_price |-> None,
         trades |-> Append(s.trades,
                       [date |-> row.Date, action |-> "sell", price |-> sell_price,
                        fund |-> fund1, bank |-> bank1]),
         last_sell_date |-> row.Date]

\* Mutant: the skim is 20% of the proceeds, not of the profit.
Sell_SkimOfProceeds(s, row) ==
    LET sell_price == row.Open_tecl
        ratio  == Frac(sell_price, s.purchase_price)
        fund1  == FracMul(s.fund, ratio)
        bank1  == FracAdd(s.bank, FracMul(fund1, BANK_SKIM))
    IN  [fund |-> fund1, bank |-> bank1, in_position |-> FALSE,
         purchase_price |-> None,
         trades |-> Append(s.trades,
                       [date |-> row.Date, action |-> "sell", price |-> sell_price,
                        fund |-> fund1, bank |-> bank1]),
         last_sell_date |-> row.Date]

\* Mutant: the sale leaves purchase_price in place.
Sell_KeepsPrice(s, row) ==
    LET sell_price == row.Open_tecl
        ratio  == Frac(sell_price, s.purchase_price)
        profit == FracSub(FracMul(s.fund, ratio), s.fund)
        bank1  == FracAdd(s.bank, FracMul(profit, BANK_SKIM))
        fund1  == FracMul(s.fund, ratio)
    IN  [fund |-> fund1, bank |-> bank1, in_position |-> FALSE,
         purchase_price |-> s.purchase_price,
         trades |-> Append(s.trades,
                       [date |-> row.Date, action |-> "sell", price |-> sell_price,
                        fund |-> fund1, bank |-> bank1]),
         last_sell_date |-> row.Date]

\* The sell branch.
Sell(s, row) ==
    LET sell_price == row.Open_tecl
        ratio  == Frac(sell_price, s.purchase_price)
        profit == FracSub(FracMul(s.fund, ratio), s.fund)
        bank1  == FracAdd(s.bank, FracMul(profit, BANK_SKIM))
        fund1  == FracMul(s.fund, ratio)
    IN  [fund |-> fund1, bank |-> bank1, in_position |-> FALSE,
         purchase_price |-> None,
         trades |-> Append(s.trades,
                       [date |-> row.Date, action |-> "sell", price |-> sell_price,
                        fund |-> fund1, bank |-> bank1]),
         last_sell_date |-> row.Date]

\* Mutant: the buy forgets in_position = True.
BuyImmediate_StaysFlat(s, row) ==
    [s EXCEPT !.purchase_price = row.Open_tecl,
              !.trades = Append(@, [date |-> row.Date,
                                    action |-> "buy (immediate low TECL)",
                                    price |-> row.Open_tecl, fund |-> s.fund])]

BuyImmediate(s, row) ==
    [s EXCEPT !.purchase_price = row.Open_tecl,
              !.in_position = TRUE,
              !.trades = Append(@, [date |-> row.Date,
                                    action |-> "buy (immediate low TECL)",
                                    price |-> row.Open_tecl, fund |-> s.fund])]

\* Mutant: the conditional buy forgets the last sale.
BuyConditional_ForgetsSale(s, row, prev_row) ==
    [s EXCEPT !.purchase_price = row.Open_tecl,
              !.in_position = TRUE,
              !.last_sell_date = None,
              !.trades = Append(@, [date |-> row.Date,
                                    action |-> "buy (with VIX condition)",
                                    price |-> row.Open_tecl, fund |-> s.fund,
                                    prev_date |-> prev_row.Date,
                                    prev_vix |-> prev_row.OPEN_vix,
                                    prev_WMA_vix |-> prev_row.WMA_vix])]

BuyConditional(s, row, prev_row) ==
    [s EXCEPT !.purchase_price = row.Open_tecl,
              !.in_position = TRUE,
              !.trades = Append(@, [date |-> row.Date,
                                    action |-> "buy (with VIX condition)",
                                    price |-> row.Open_tecl, fund |-> s.fund,
                                    prev_date |-> prev_row.Date,
                                    prev_vix |-> prev_row.OPEN_vix,
                                    prev_WMA_vix |-> prev_row.WMA_vix])]

\* Mutant: only the sma is tested before the row is used.
Branch_SmaOnly(s, df, t) ==
    LET row == df[t]
    IN  IF isna(row.SMA_tecl) THEN "skip"
        ELSE IF s.in_position
             THEN (IF SellSignal(row.Open_tecl, s.purchase_price) THEN "sell" ELSE "hold")
        ELSE IF InCooldown(row.Date, s.last_sell_date) THEN "cooldown"
        ELSE IF ImmediateSignal(row.Open_tecl, row.SMA_tecl) THEN "buy_immediate"
        ELSE IF ConditionalSignal(df, t) THEN "buy_conditional"
        ELSE "none"

\* Mutant: the conditional rule is tried before the immediate rule.
Branch_ConditionalFirst(s, df, t) ==
    LET row == df[t]
    IN  IF isna(row.SMA_tecl) \/ isna(row.WMA_vix) THEN "skip"
        ELSE IF s.in_position
             THEN (IF SellSignal(row.Open_tecl, s.purchase_price) THEN "sell" ELSE "hold")
        ELSE IF InCooldown(row.Date, s.last_sell_date) THEN "cooldown"
        ELSE IF ConditionalSignal(df, t) THEN "buy_conditional"
        ELSE IF ImmediateSignal(row.Open_tecl, row.SMA_tecl) THEN "buy_immediate"
        ELSE "none"

\* Which branch the loop body takes for the row at position t of frame df.
Branch(s, df, t) ==
    LET row == df[t]
    IN  IF isna(row.SMA_tecl) \/ isna(row.WMA_vix) THEN "skip"
        ELSE IF s.in_position
             THEN (IF SellSignal(row.Open_tecl, s.purchase_price) THEN "sell" ELSE "hold")
        ELSE IF InCooldown(row.Date, s.last_sell_date) THEN "cooldown"
        ELSE IF ImmediateSignal(row.Open_tecl, row.SMA_tecl) THEN "buy_immediate"
        ELSE IF ConditionalSignal(df, t) THEN "buy_conditional"
        ELSE "none"

\* The state after the loop body took branch b at position t.
Apply(b, s, df, t) ==
    CASE b = "sell"            -> Sell(s, df[t])
      [] b = "buy_immediate"   -> BuyImmediate(s, df[t])
      [] b = "buy_conditional" -> BuyConditional(s, df[t], df[LookBack(t)])
      [] OTHER                 -> s

\* One pass of the loop body: the state after the row at position t.
LoopBody(s, df, t) == Apply(Branch(s, df, t), s, df, t)

(***************************************************************************)
(* The state.  merged_df holds the joint series (Date, Open_tecl,          *)
(* OPEN_vix, and the indicator columns calculate_indicators assigns), pos  *)
(* the number of rows the loop of backtest_trading has passed, and fund,   *)
(* bank, in_position, purchase_price, trades and last_sell_date are the    *)
(* locals of backtest_trading.  branch records the branch the loop body    *)
(* took at the last row ("merged" before calculate_indicators has run,     *)
(* "start" before the first row).  alt_df and alt_state are a second       *)
(* joint series and the locals of backtest_trading run on it, for the      *)
(* comparison of two runs (SpecPair).                                      *)
(***************************************************************************)
VARIABLES merged_df, pos, fund, bank, in_position, purchase_price, trades,
          last_sell_date, branch, alt_df, alt_state

(***************************************************************************)
(* The live trader.  trader holds the fields of the AlpacaLiveTrader       *)
(* object, broker the Alpaca account (the TECL position, the buying power  *)
(* and the orders it accepted), db the DynamoDB state table, now the       *)
(* calendar day, and session what the last call on the trader did: its     *)
(* outcome, the calls it made in order, the events it put in the DynamoDB  *)
(* events table (which the trader writes and never reads), and what        *)
(* buy_tecl or sell_tecl returned.  fetch holds one call of                *)
(* get_current_price or get_historical_data: what was called, what the     *)
(* attempts answer, and what the call returned.  handler holds the last    *)
(* call of load_state or save_state made on a DynamoDBHandler directly,    *)
(* scheduler the position of start_scheduler and of the run_trading_check  *)
(* it is in, the reading of its clock and how its last check ended.        *)
(***************************************************************************)
VARIABLES trader, broker, db, now, session, fetch, handler, scheduler

backtestVars == <<merged_df, pos, fund, bank, in_position, purchase_price, trades,
                  last_sell_date, branch, alt_df, alt_state>>

callVars == <<fetch, handler>>

liveVars == <<trader, broker, db, now, session, fetch, handler, scheduler>>

(***************************************************************************)
(* main() of backtesting.py on CSV files.  files holds the two CSV files,  *)
(* mainrun the position of main() (stage), its frames tecl_df and vix_df,  *)
(* the columns of merged_df, the error that ended it and the annualized    *)
(* return it computed.  annual holds the arguments and the result of one   *)
(* call of annualized_return.                                              *)
(***************************************************************************)
VARIABLES files, mainrun, annual

mainVars == <<files, mainrun, annual>>

vars == <<backtestVars, liveVars, mainVars>>

State ==
    [fund |-> fund, bank |-> bank, in_position |-> in_position,
     purchase_price |-> purchase_price, trades |-> trades,
     last_sell_date |-> last_sell_date]

SetState(s) ==
    /\ fund' = s.fund
    /\ bank' = s.bank
    /\ in_position' = s.in_position
    /\ purchase_price' = s.purchase_price
    /\ trades' = s.trades
    /\ last_sell_date' = s.last_sell_date

InitState ==
    /\ fund = InitialState.fund
    /\ bank = InitialState.bank
    /\ in_position = InitialState.in_position
    /\ purchase_price = InitialState.purchase_price
    /\ trades = InitialState.trades
    /\ last_sell_date = InitialState.last_sell_date

(***************************************************************************)
(* live_trader.py.  Prices are cents, as in the backtest; a date is a day  *)
(* number, and so is a persisted date string.  The broker's qty is a whole *)
(* number of shares, as every order of the trader is.                      *)
(***************************************************************************)
max_retries == 3

\* float(os.getenv('POSITION_SIZE_LIMIT', 0.95))
position_size_limit == Frac(95, 100)

\* __init__: in_position, purchase_price, purchase_date, position_size,
\* last_sell_date before _sync_position_state.
DefaultTrader ==
    [in_position |-> FALSE, purchase_price |-> None, purchase_date |-> None,
     position_size |-> 0, last_sell_date |-> None]

\* get_all_positions() holds no TECL position.
NoPosition == [qty |-> 0, avg_entry_price |-> None]

\* No call of get_current_price or get_historical_data was made.
NoFetch == [what |-> "none", answers |-> <<>>, returned |-> FALSE,
            result |-> [value |-> None, tries |-> 0, waits |-> <<>>]]

\* No call was made on a DynamoDBHandler directly.
NoHandlerCall ==
    [call |-> "none", trader_id |-> "", args |-> DefaultTrader, initial_capital |-> None,
     load |-> "none", answer |-> "none", returned |-> "none", state |-> {}]

\* start_scheduler was not called.
NoSchedule ==
    [pc |-> "off", tick |-> 1, slept |-> FALSE, last |-> "none", before |-> "none",
     round |-> 0]

\* The live variables of a run that never builds a trader.
LiveIdle ==
    /\ scheduler = NoSchedule
    /\ fetch = NoFetch
    /\ handler = NoHandlerCall
    /\ trader = DefaultTrader
    /\ broker = [position |-> NoPosition, buying_power |-> 0, orders |-> <<>>]
    /\ db = [state_table |-> {}]
    /\ now = 0
    /\ session = [outcome |-> "idle", trace |-> <<>>, events |-> {}, returned |-> "none"]

\* The values of the state table.  A Python float is told by its hundredths
\* (115.50 is 11550, the double nearest to it), an int by itself, a date
\* string by its day.  A Number attribute of the table is the exact decimal
\* n / d, a NULL attribute is NullAttr.
FloatFields == {"purchase_price", "initial_capital"}
IntFields   == {"position_size"}
NullAttr    == [n |-> 0, d |-> 0]

\* Decimal(str(x)): str gives the shortest decimal that reads back as x,
\* which for the double nearest to c / 100 is c / 100 itself.
DecimalOfStr(c) == [n |-> c, d |-> 100]

\* Mutant: the float is stored rounded to whole units.
convert_floats_to_decimal_Rounds(item) ==
    [k \in DOMAIN item |->
        IF k \notin FloatFields THEN item[k]
        ELSE IF item[k] = None THEN NullAttr
        ELSE [n |-> (item[k] + 50) \div 100, d |-> 1]]

\* _convert_floats_to_decimal on the item of save_state: every float
\* becomes Decimal(str(x)); ints, strings, booleans and None stay (the
\* None of a price is written here as the NULL the table keeps for it).
convert_floats_to_decimal(item) ==
    [k \in DOMAIN item |->
        IF k \notin FloatFields THEN item[k]
        ELSE IF item[k] = None THEN NullAttr
        ELSE DecimalOfStr(item[k])]

\* put_item: the table keeps a Decimal and an int alike as a Number.
Attributes(item) ==
    [k \in DOMAIN item |-> IF k \in IntFields THEN [n |-> item[k], d |-> 1] ELSE item[k]]

\* get_item followed by _convert_decimal_to_float: every Number comes back
\* as a Decimal and becomes float(Decimal), the int position_size too;
\* NULL comes back as None.
convert_decimal_to_float(item) ==
    [k \in DOMAIN item |->
        IF k \in FloatFields \cup IntFields
        THEN (IF item[k] = NullAttr THEN None ELSE (item[k].n * 100) \div item[k].d)
        ELSE item[k]]

StateItems(table, trader_id) == {i \in table : i.trader_id = trader_id}

\* Without(item, key): item.pop(key, None).
Without(item, key) == [k \in (DOMAIN item) \ {key} |-> item[k]]

\* DynamoDBHandler.load_state: the item of trader_id, converted, without
\* its key (as a set: empty for {}); {} too when get_item raises
\* ClientError.  (Another error of get_item leaves load_state; _load_state
\* turns it into None, save_state passes it on.)
load_state(d, trader_id, answer) ==
    IF answer = "ok"
    THEN {Without(convert_decimal_to_float(i), "trader_id") :
             i \in StateItems(d.state_table, trader_id)}
    ELSE {}

\* The item save_state builds from its arguments (last_updated, the time
\* of the call, is left out) and what the table keeps of it.
StateItem(args, trader_id, capital) ==
    Attributes(convert_floats_to_decimal(
        [k \in {"trader_id", "in_position", "purchase_price", "purchase_date",
                "position_size", "last_sell_date"}
               \cup (IF capital = None THEN {} ELSE {"initial_capital"}) |->
            IF k = "trader_id" THEN trader_id
            ELSE IF k = "initial_capital" THEN capital
            ELSE args[k]]))

\* DynamoDBHandler.save_state: load_state(trader_id) for the stored
\* initial_capital, then put_item, which replaces the whole item of
\* trader_id.  load tells what get_item met, answer what put_item met;
\* nothing is written when put_item fails or when get_item raised an error
\* that load_state does not catch.
save_state(d, args, trader_id, initial_capital, load, answer) ==
    IF load = "raise" \/ answer # "ok" THEN d
    ELSE LET existing_state == load_state(d, trader_id, load)
             capital == IF initial_capital # None THEN initial_capital
                        ELSE IF \E e \in existing_state : "initial_capital" \in DOMAIN e
                        THEN (CHOOSE e \in existing_state : TRUE).initial_capital
                        ELSE None
         IN  [d EXCEPT !.state_table =
                 (@ \ StateItems(@, trader_id))
                 \cup {StateItem(args, trader_id, capital)}]

\* What save_state returns: True, False on a ClientError of put_item, or
\* the error it does not catch.
save_state_returns(load, answer) ==
    IF load = "raise" \/ answer = "raise" THEN "raised"
    ELSE IF answer = "ok" THEN "True" ELSE "False"

\* DynamoDBHandler.log_event: puts the event unless put_item fails.  d
\* holds the state table and, as events_table, the events the running call
\* has put, by type; the generated event_id, the timestamp and the payload
\* are left out.
log_event(d, event_type, answer) ==
    IF answer = "ok"
    THEN [d EXCEPT !.events_table = @ \cup {[event_type |-> event_type]}]
    ELSE d

\* Mutant: the snapshot decides in_position when there is one.
sync_position_state_TrustsSnapshot(saved, answer, br, today) ==
    IF answer # "ok" THEN DefaultTrader
    ELSE IF \E i \in saved : i.in_position
    THEN LET i == CHOOSE i \in saved : TRUE
         IN  [in_position |-> TRUE, position_size |-> i.position_size,
              purchase_price |-> i.purchase_price, purchase_date |-> i.purchase_date,
              last_sell_date |-> None]
    ELSE [DefaultTrader EXCEPT !.last_sell_date =
              IF \E i \in saved : i.last_sell_date # None
              THEN (CHOOSE i \in saved : TRUE).last_sell_date
              ELSE None]

\* _sync_position_state, given what _load_state returned (a set, empty for
\* None) and the answer of get_all_positions.
sync_position_state(saved, answer, br, today) ==
    IF answer # "ok" THEN DefaultTrader
    ELSE IF br.position.qty > 0
    THEN [in_position |-> TRUE,
          position_size |-> br.position.qty,
          purchase_price |-> br.position.avg_entry_price,
          purchase_date |->
              IF \E i \in saved : i.in_position /\ i.purchase_date # None
              THEN (CHOOSE i \in saved : TRUE).purchase_date
              ELSE today,
          last_sell_date |-> None]
    ELSE [DefaultTrader EXCEPT !.last_sell_date =
              IF \E i \in saved : i.last_sell_date # None
              THEN (CHOOSE i \in saved : TRUE).last_sell_date
              ELSE None]

\* One attempt of a fetch answers with data, with no data, or raises (a
\* rate limit or another error).
Data(v) == [kind |-> "data", value |-> v]
NoData(kind, nodata) == [kind |-> kind, value |-> nodata]

\* Mutant: no retry, the first attempt decides.
FetchFrom_FirstAnswer(answers, attempt, base, nodata) ==
    [value |-> IF answers[1].kind = "data" THEN answers[1].value ELSE nodata,
     tries |-> 1, waits |-> <<>>]

\* The retry loop of get_current_price and get_historical_data from attempt
\* number attempt (from 0) on: the first data is returned, nodata after
\* max_retries attempts; waits are the seconds slept after a raised error.
RECURSIVE FetchFrom(_, _, _, _)
FetchFrom(answers, attempt, base, nodata) ==
    IF attempt >= max_retries
    THEN [value |-> nodata, tries |-> attempt, waits |-> <<>>]
    ELSE LET a == answers[attempt + 1]
         IN  IF a.kind = "data"
             THEN [value |-> a.value, tries |-> attempt + 1, waits |-> <<>>]
             ELSE LET wait == IF a.kind = "empty" \/ attempt >= max_retries - 1
                              THEN <<>>
                              ELSE IF a.kind = "rate_limit"
                              THEN <<base * 3 ^ attempt>>
                              ELSE <<10>>
                      rest == FetchFrom(answers, attempt + 1, base, nodata)
                  IN  [rest EXCEPT !.waits = wait \o @]

\* Mutant: a price of 100.00 stands in for the one that never came.
get_current_price_Default(answers) ==
    [FetchFrom(answers, 0, 15, None) EXCEPT !.value = IF @ = None THEN 10000 ELSE @]

get_current_price(answers) == FetchFrom(answers, 0, 15, None)

get_historical_data(answers) == FetchFrom(answers, 0, 20, <<>>)

\* pd.merge(..., how='inner') on the date: the rows of left, in the order
\* of left, joined with every row of right of the same date.
JoinRow(l, r) ==
    [c \in (DOMAIN l) \cup (DOMAIN r) |-> IF c \in DOMAIN l THEN l[c] ELSE r[c]]

RECURSIVE InnerJoin(_, _)
InnerJoin(left, right) ==
    IF left = <<>> THEN <<>>
    ELSE LET l == left[1]
             matches == SelectSeq(right, LAMBDA r : r.Date = l.Date)
         IN  [k \in 1..Len(matches) |-> JoinRow(l, matches[k])]
             \o InnerJoin(Tail(left), right)

\* tecl_data.rename(columns={'Open': 'Open_tecl'})[['Open_tecl']] and the
\* same for OPEN_vix, with the index as Date.
OpenAs(data, name) ==
    [t \in 1..Len(data) |->
        [c \in {"Date", name} |-> IF c = "Date" THEN data[t].Date ELSE data[t].Open]]

\* check_trading_signals: pd.merge(tecl_data[['Open_tecl']],
\* vix_data[['OPEN_vix']], left_index=True, right_index=True, how='inner').
LiveFrame(tecl_data, vix_data) ==
    InnerJoin(OpenAs(tecl_data, "Open_tecl"), OpenAs(vix_data, "OPEN_vix"))

\* check_trading_signals: the rows it reads from the frame with
\* indicators, latest = merged_df.iloc[-1] and merged_df.iloc[-5] (the
\* latest row again when the frame has fewer than 5 rows, then unread).
LiveRows(df) ==
    [len |-> Len(df),
     latest |-> df[Len(df)],
     prev |-> df[IF Len(df) >= 5 THEN Len(df) - 4 ELSE Len(df)]]

\* Mutant: the cycle tries the VIX rule before the immediate rule.
LiveBranch_ConditionalFirst(tr, today, tecl_price, rows) ==
    IF tr.in_position /\ SellSignal(tecl_price, tr.purchase_price) THEN "sell"
    ELSE IF tr.last_sell_date # None /\ tr.last_sell_date = today THEN "sold_today"
    ELSE IF tr.in_position THEN "hold"
    ELSE IF /\ ~isna(rows.latest.SMA_tecl)
            /\ BelowHigh(tecl_price, rows.latest.SMA_tecl)
            /\ rows.len >= 5
            /\ VixSignal(rows.prev)
         THEN "buy_conditional"
    ELSE IF ~isna(rows.latest.SMA_tecl) /\ ImmediateSignal(tecl_price, rows.latest.SMA_tecl)
         THEN "buy_immediate"
    ELSE "none"

\* Mutant: the buy rules are not skipped on the day of a sale.
LiveBranch_BuysAfterSale(tr, today, tecl_price, rows) ==
    IF tr.in_position /\ SellSignal(tecl_price, tr.purchase_price) THEN "sell"
    ELSE IF tr.in_position THEN "hold"
    ELSE IF ~isna(rows.latest.SMA_tecl) /\ ImmediateSignal(tecl_price, rows.latest.SMA_tecl)
         THEN "buy_immediate"
    ELSE IF /\ ~isna(rows.latest.SMA_tecl)
            /\ BelowHigh(tecl_price, rows.latest.SMA_tecl)
            /\ rows.len >= 5
            /\ VixSignal(rows.prev)
         THEN "buy_conditional"
    ELSE "none"

\* check_trading_signals after the SIGNAL_CHECK event: which of its
\* branches the cycle takes.  A comparison with an absent (NaN) indicator
\* is False.
LiveBranch(tr, today, tecl_price, rows) ==
    IF tr.in_position /\ SellSignal(tecl_price, tr.purchase_price) THEN "sell"
    ELSE IF tr.last_sell_date # None /\ tr.last_sell_date = today THEN "sold_today"
    ELSE IF tr.in_position THEN "hold"
    ELSE IF ~isna(rows.latest.SMA_tecl) /\ ImmediateSignal(tecl_price, rows.latest.SMA_tecl)
         THEN "buy_immediate"
    ELSE IF /\ ~isna(rows.latest.SMA_tecl)
            /\ BelowHigh(tecl_price, rows.latest.SMA_tecl)
            /\ rows.len >= 5
            /\ VixSignal(rows.prev)
         THEN "buy_conditional"
    ELSE "none"

\* Mutant: the whole buying power is spent.
Shares_WholeBalance(buying_power, price) == buying_power \div price

\* shares = int(position_value // price), position_value = buying_power *
\* position_size_limit (in exact arithmetic).
Shares(buying_power, price) ==
    (buying_power * position_size_limit.n) \div (position_size_limit.d * price)

\* Mutant: place_order reports success whatever submit_order did.
place_order_ReportsSuccess(br, side, qty, price, today, answer) ==
    [accepted |-> TRUE, broker |-> br]

\* Mutant: the order is submitted twice.
place_order_Twice(br, side, qty, price, today, answer) ==
    [accepted |-> answer = "ok",
     broker |-> IF answer # "ok" THEN br
                ELSE [br EXCEPT !.orders =
                         @ \o <<[side |-> side, qty |-> qty, day |-> today],
                                [side |-> side, qty |-> qty, day |-> today]>>]]

\* place_order: submit_order either accepts the market order, which the
\* broker fills at the price, or raises; place_order returns True or False.
place_order(br, side, qty, price, today, answer) ==
    [accepted |-> answer = "ok",
     broker |->
        IF answer # "ok" THEN br
        ELSE [position |-> IF side = "buy"
                           THEN [qty |-> br.position.qty + qty, avg_entry_price |-> price]
                           ELSE NoPosition,
              buying_power |-> IF side = "buy" THEN br.buying_power - qty * price
                               ELSE br.buying_power + qty * price,
              orders |-> Append(br.orders, [side |-> side, qty |-> qty, day |-> today])]]

(***************************************************************************)
(* backtesting.py: load_data, add_suffix, merge_data, annualized_return.   *)
(* A CSV file is its header (the column names as written) and its rows     *)
(* (the cells by position); a date cell is the day its text stands for.  A *)
(* frame is its set of columns and its rows, each a function of the        *)
(* columns.                                                                *)
(***************************************************************************)
NoFrame == [columns |-> {}, rows |-> <<>>]

NoCall == [starting_fund |-> Frac(0, 1), final_fund |-> Frac(0, 1),
           start_date |-> 0, end_date |-> 0]

NoResult == [kind |-> "none", base |-> Frac(0, 1), exponent |-> Frac(0, 1)]

NoFiles == [tecl |-> [header |-> <<>>, rows |-> <<>>],
            vix |-> [header |-> <<>>, rows |-> <<>>]]

NoRun == [stage |-> "idle", tecl_df |-> NoFrame, vix_df |-> NoFrame,
          columns |-> {}, error |-> "none", annual_return |-> NoResult]

\* The main variables of a run that never calls main().
MainIdle ==
    /\ files = NoFiles
    /\ mainrun = NoRun
    /\ annual = [args |-> NoCall, result |-> NoResult]

\* str.strip() on the column names that occur.
Strip(name) ==
    CASE name = " Date" -> "Date"
      [] name = "Open " -> "Open"
      [] OTHER -> name

\* Mutant: a file without the date column loads as a frame of no rows.
load_data_Lenient(file, date_col) ==
    [error |-> "none", df |-> [columns |-> {"Date"}, rows |-> <<>>]]

\* load_data(file_path, date_col): the frame, or the ValueError raised when
\* no column is named date_col after stripping.
load_data(file, date_col) ==
    LET names == [i \in 1..Len(file.header) |-> Strip(file.header[i])]
        column(i) == IF names[i] = date_col THEN "Date" ELSE names[i]
        found == \E i \in 1..Len(names) : names[i] = date_col
    IN  IF ~found THEN [error |-> "ValueError", df |-> NoFrame]
        ELSE [error |-> "none",
              df |-> [columns |-> {column(i) : i \in 1..Len(names)},
                      rows |-> [t \in 1..Len(file.rows) |->
                                  [c \in {column(i) : i \in 1..Len(names)} |->
                                      file.rows[t][CHOOSE i \in 1..Len(names) :
                                                       column(i) = c]]]]]

\* add_suffix(df, suffix): every column but Date gets the suffix.
add_suffix(df, suffix) ==
    LET renamed(c) == IF c = "Date" THEN c ELSE c \o suffix
    IN  [columns |-> {renamed(c) : c \in df.columns},
         rows |-> [t \in 1..Len(df.rows) |->
                     [c \in {renamed(k) : k \in df.columns} |->
                         df.rows[t][CHOOSE k \in df.columns : renamed(k) = c]]]]

\* sort_values("Date") on rows of distinct dates.
RECURSIVE SortByDate(_)
SortByDate(rows) ==
    IF rows = <<>> THEN <<>>
    ELSE LET first == CHOOSE i \in 1..Len(rows) :
                          \A j \in 1..Len(rows) : rows[i].Date <= rows[j].Date
         IN  <<rows[first]>> \o
             SortByDate(SubSeq(rows, 1, first - 1) \o SubSeq(rows, first + 1, Len(rows)))

\* Mutant: the inner join without sort_values.
merge_data_Unsorted(tecl_df, vix_df) ==
    [columns |-> tecl_df.columns \cup vix_df.columns,
     rows |-> InnerJoin(tecl_df.rows, vix_df.rows)]

\* merge_data: pd.merge(tecl_df, vix_df, on="Date", how="inner"), then
\* sort_values("Date").
merge_data(tecl_df, vix_df) ==
    [columns |-> tecl_df.columns \cup vix_df.columns,
     rows |-> SortByDate(InnerJoin(tecl_df.rows, vix_df.rows))]

FracDiv(a, b) ==
    IF b.n < 0 THEN Frac(-(a.n * b.d), a.d * (-b.n)) ELSE Frac(a.n * b.d, a.d * b.n)

\* annualized_return with years of 365 days.
annualized_return_Years365(starting_fund, final_fund, start_date, end_date) ==
    LET days == end_date - start_date
        raised(kind) == [kind |-> kind, base |-> Frac(0, 1), exponent |-> Frac(0, 1)]
    IN  IF starting_fund.n = 0 THEN raised("ZeroDivisionError")
        ELSE IF days = 0 THEN raised("ZeroDivisionError")
        ELSE LET base == FracDiv(final_fund, starting_fund)
                 exponent == IF days < 0 THEN Frac(-365, -days) ELSE Frac(365, days)
             IN  IF base.n = 0 /\ exponent.n < 0 THEN raised("ZeroDivisionError")
                 ELSE [kind |-> IF base.n < 0 THEN "complex" ELSE "float",
                       base |-> base, exponent |-> exponent]

\* annualized_return: (final_fund / starting_fund) ** (1 / years) - 1 as a
\* percentage, years = (end_date - start_date).days / 365.25.  The result
\* is the error Python raises (a division by zero, 0.0 to a negative
\* power), a complex number (a negative base to a power that is no whole
\* number: 1461 / (4 * days) never is), or the float base ** exponent - 1,
\* held as its base and its exponent 1 / years = 1461 / (4 * days).
annualized_return(starting_fund, final_fund, start_date, end_date) ==
    LET days == end_date - start_date
        raised(kind) == [kind |-> kind, base |-> Frac(0, 1), exponent |-> Frac(0, 1)]
    IN  IF starting_fund.n = 0 THEN raised("ZeroDivisionError")
        ELSE IF days = 0 THEN raised("ZeroDivisionError")
        ELSE LET base == FracDiv(final_fund, starting_fund)
                 exponent == IF days < 0 THEN Frac(-1461, 4 * (-days))
                             ELSE Frac(1461, 4 * days)
             IN  IF base.n = 0 /\ exponent.n < 0 THEN raised("ZeroDivisionError")
                 ELSE [kind |-> IF base.n < 0 THEN "complex" ELSE "float",
                       base |-> base, exponent |-> exponent]

\* x ** n for a whole n >= 1 in binary64, by squaring: the float power of
\* annualized_return is read through whole powers, x ** (n / d) > c exactly
\* when x ** n > c ** d for positive x, c, n and d.
RECURSIVE FPow(_, _)
FPow(x, n) ==
    IF n = 1 THEN x
    ELSE CHOOSE p \in {IF n % 2 = 1 THEN FMul(sq, x) ELSE sq :
                          sq \in {FMul(h, h) : h \in {FPow(x, n \div 2)}}} : TRUE

\* The percentage a float result stands for is above num / den percent:
\* (base ** exponent - 1) * 100 > num / den, for a positive base and a
\* positive exponent.  The two powers are accumulated in binary64 (relative
\* error below n * 2^-53 each).
ReturnAbove(r, num, den) ==
    FGt(FPow(ToDouble(r.base.n, r.base.d), r.exponent.n),
        FPow(ToDouble(100 * den + num, 100 * den), r.exponent.d))

(***************************************************************************)
(* The joint series of Spec.  The first N rows lie on consecutive business *)
(* days from a Monday, with one Open_tecl and a slowly rising OPEN_vix;    *)
(* each later row draws its Open_tecl from TailOpens.  One row may carry a *)
(* raised OPEN_vix, one may miss an open, and one may come a business day  *)
(* late (a market holiday).                                                *)
(***************************************************************************)
MaxRows == 35

StartDates == {0}
BaseOpens  == {14000}
TailOpens  == {10000, 10579, 10580, 11000}
CalmVix    == {2000}
SpikeVix   == {3000}
SpikeRows   == {N + 1}
MissingRows == {N + 2}
HolidayRows == {N + 3}

VixRamp(t) == 2000 + 10 * t

NextDates(df) ==
    IF df = <<>> THEN StartDates
    ELSE LET d == df[Len(df)].Date
         IN  {BDay1(d)} \cup
             (IF Len(df) + 1 \in HolidayRows THEN {BDay1(BDay1(d))} ELSE {})

NextOpensTecl(df) ==
    LET t == Len(df) + 1
    IN  IF t = 1 THEN BaseOpens
        ELSE IF t <= N THEN {df[1].Open_tecl}
        ELSE TailOpens \cup (IF t \in MissingRows THEN {NaN} ELSE {})

NextOpensVix(df) ==
    LET t == Len(df) + 1
    IN  IF t <= N THEN {VixRamp(t)}
        ELSE CalmVix
             \cup (IF t \in SpikeRows THEN SpikeVix ELSE {})
             \cup (IF t \in MissingRows THEN {NaN} ELSE {})

\* A row as merge_data delivers it: the indicator columns do not exist yet.
NextRows(df) ==
    [Date : NextDates(df), Open_tecl : NextOpensTecl(df), OPEN_vix : NextOpensVix(df),
     SMA_tecl : {NaNFrac}, WMA_vix : {NaNFrac}]

\* backtest_trading has not run.
BacktestIdle ==
    /\ merged_df = <<>>
    /\ pos = 0
    /\ InitState
    /\ branch = "start"
    /\ alt_df = <<>>
    /\ alt_state = InitialState

Init ==
    /\ BacktestIdle
    /\ LiveIdle
    /\ MainIdle

\* The loop of backtest_trading passes the next row of the joint series.
\* The row's opens are drawn as the loop reaches it; its indicator columns
\* are those calculate_indicators assigns it in the series read so far
\* (NoLookAhead, under SpecPair, is what allows this).
PassRow(row) ==
    LET t == pos + 1
        frame == Append(merged_df, calculate_indicators(Append(merged_df, row))[t])
    IN  /\ merged_df' = frame
        /\ pos' = t
        /\ \E b \in {Branch(State, frame, t)} :
              /\ branch' = b
              /\ SetState(Apply(b, State, frame, t))
        /\ UNCHANGED <<alt_df, alt_state, liveVars, mainVars>>

IterRow ==
    /\ pos < MaxRows
    /\ \E row \in NextRows(merged_df) : PassRow(row)

Next == IterRow

Spec == Init /\ [][Next]_vars

(***************************************************************************)
(* SpecScenario: backtest_trading over joint series around exact           *)
(* thresholds.  Rows lie on consecutive business days from a Monday or a   *)
(* Tuesday.  Open_tecl is 100.00 on rows 1 .. N + 1 and OPEN_vix 20.00 on  *)
(* rows 1 .. N, so the first indicators are exactly 100.00 and 20.00; row  *)
(* N + 1 draws an OPEN_vix below, at or above 1.04 times that wma, and     *)
(* each later row draws its Open_tecl from the set of its position.        *)
(***************************************************************************)
ScenarioRows == 36

ScenarioStartDates == {0, 1}
ScenarioBaseOpens  == {10000}
ScenarioBaseVix    == {2000}
ScenarioLagVix     == {2000, 2080, 3000}
ScenarioTail ==
    <<{7400, 7500, 10000}, {7700, 10000}, {7700, 10000},
      {7000, 7930, 12000, 12500}, {7000, 10000}>>

ScenarioOpensTecl(t) ==
    IF t <= N + 1 THEN ScenarioBaseOpens
    ELSE IF t - (N + 1) <= Len(ScenarioTail) THEN ScenarioTail[t - (N + 1)]
    ELSE ScenarioBaseOpens

ScenarioOpensVix(t) == IF t = N + 1 THEN ScenarioLagVix ELSE ScenarioBaseVix

ScenarioNextRows(df) ==
    [Date : IF df = <<>> THEN ScenarioStartDates ELSE {BDay1(df[Len(df)].Date)},
     Open_tecl : ScenarioOpensTecl(Len(df) + 1),
     OPEN_vix : ScenarioOpensVix(Len(df) + 1),
     SMA_tecl : {NaNFrac}, WMA_vix : {NaNFrac}]

\* The loop of backtest_trading passes the next row of a scenario series.
ScenarioRow ==
    /\ pos < ScenarioRows
    /\ \E row \in ScenarioNextRows(merged_df) : PassRow(row)

SpecScenario == Init /\ [][ScenarioRow]_vars

(***************************************************************************)
(* SpecLive: a trader object, its trading sessions, new trader objects     *)
(* (a restart, or the next scheduled check) and the passing of days.  The  *)
(* account starts flat or holding TECL, and the state table empty or with  *)
(* a snapshot that may disagree with the account.  Every call of a         *)
(* collaborator (clock, account, price and history fetch, order, state and *)
(* event write) may succeed or fail.  The fetched histories are TECL at    *)
(* 100.00 and VIX at 20.00, VIX five rows from the end at 30.00 in some.   *)
(* Sessions run until the account has taken MaxOrders orders, over MaxDays *)
(* days.                                                                   *)
(***************************************************************************)
MaxOrders == 2
MaxDays == 2

LiveFirstDays == {1}
LivePrices == {7000, 10000, 13000}
LiveVixPrices == {2000}
LiveBaseOpens == {10000}
LiveBaseVix == {2000}
LiveSpikeVix == {3000}
HistoryLens == {N - 1, N, N + 5}
LiveAccounts ==
    {[position |-> NoPosition, buying_power |-> 100000, orders |-> <<>>],
     [position |-> NoPosition, buying_power |-> 5000, orders |-> <<>>],
     [position |-> [qty |-> 9, avg_entry_price |-> 10000], buying_power |-> 5000,
      orders |-> <<>>]}
LiveSnapshots ==
    {{},
     {StateItem([in_position |-> TRUE, purchase_price |-> 7000, purchase_date |-> 0,
                 position_size |-> 13, last_sell_date |-> None], "main", None)},
     {StateItem([in_position |-> FALSE, purchase_price |-> None, purchase_date |-> None,
                 position_size |-> 0, last_sell_date |-> d], "main", None) :
          d \in LiveFirstDays}}

ApiAnswers   == {"ok", "raise"}
OrderAnswers == {"ok", "raise"}
LoadAnswers  == {"ok", "ClientError", "raise"}
SaveAnswers  == {"ok", "ClientError", "raise"}
LogAnswers   == {"ok", "ClientError", "raise"}

\* get_clock(): the market is open only on a weekday, and not on every one.
ClockAnswers(today) ==
    {"closed", "raise"} \cup (IF Weekday(today) < 5 THEN {"open"} ELSE {})

\* The answers of the attempts of one fetch: data at once, or never.
AttemptRuns(values, nodata) ==
    {[k \in 1..max_retries |-> Data(v)] : v \in values}
    \cup {[k \in 1..max_retries |->
              NoData(IF k = 1 THEN "rate_limit" ELSE IF k = 2 THEN "empty" ELSE "error",
                     nodata)]}

Exhausted(answers) == \A k \in 1..max_retries : answers[k].kind # "data"

\* A history of len daily bars ending today, with open at every bar but
\* the one at position spike from the end.
History(len, today, open, spike, spiked) ==
    [t \in 1..len |->
        [Date |-> today - len + t,
         Open |-> IF len - t + 1 = spike THEN spiked ELSE open]]

TeclHistories(today) ==
    {History(len, today, o, 0, o) : len \in HistoryLens, o \in LiveBaseOpens}

VixHistories(today) ==
    {History(N + 5, today, o, k, v) : o \in LiveBaseVix, k \in {0, 5}, v \in LiveSpikeVix}

\* The tables as a call on the trader finds them.
Tables == [state_table |-> db.state_table, events_table |-> {}]

\* _save_state in the trace of the call: the call of db.save_state and, when
\* it returned False or raised, the logger.error that is all that follows.
Saved(load, save) ==
    IF save_state_returns(load, save) = "True" THEN <<"save">> ELSE <<"save", "save failed">>

\* The end of a call on the trader: what it left behind.
Finish(tr, br, d, outcome, trace, returned) ==
    /\ trader' = tr
    /\ broker' = br
    /\ db' = [state_table |-> d.state_table]
    /\ session' = [outcome |-> outcome, trace |-> trace, events |-> d.events_table,
                   returned |-> returned]
    /\ UNCHANGED <<now, callVars, backtestVars, mainVars>>

\* Mutant: a sale whose state could not be saved is taken back and
\* reported as failed.
sell_tecl_RollsBack(d, price, trace) ==
    IF ~trader.in_position THEN Finish(trader, broker, d, "sell_skipped", trace, "False")
    ELSE \E answer \in OrderAnswers :
        LET order == place_order(broker, "sell", trader.position_size, price, now, answer)
            t1 == Append(trace, IF answer = "ok" THEN "order SELL" ELSE "order SELL raised")
        IN  IF ~order.accepted
            THEN Finish(trader, order.broker, d, "sell_failed", t1, "False")
            ELSE \E log \in LogAnswers :
                IF log = "raise"
                THEN Finish(trader, order.broker, d, "raised",
                            Append(t1, "log SELL raised"), "raised")
                ELSE LET tr == [in_position |-> FALSE, purchase_price |-> None,
                                purchase_date |-> None, position_size |-> 0,
                                last_sell_date |-> now]
                     IN  \E load \in LoadAnswers, save \in SaveAnswers :
                             Finish(IF save = "ok" THEN tr ELSE trader, order.broker,
                                    save_state(log_event(d, "SELL", log), tr, "main", None,
                                               load, save),
                                    IF save = "ok" THEN "sell" ELSE "sell_failed",
                                    t1 \o <<"log SELL", "clear">> \o Saved(load, save),
                                    IF save = "ok" THEN "True" ELSE "False")

\* sell_tecl(price), with the events table as the cycle left it.
sell_tecl(d, price, trace) ==
    IF ~trader.in_position THEN Finish(trader, broker, d, "sell_skipped", trace, "False")
    ELSE \E answer \in OrderAnswers :
        LET order == place_order(broker, "sell", trader.position_size, price, now, answer)
            t1 == Append(trace, IF answer = "ok" THEN "order SELL" ELSE "order SELL raised")
        IN  IF ~order.accepted
            THEN Finish(trader, order.broker, d, "sell_failed", t1, "False")
            ELSE \E log \in LogAnswers :
                IF log = "raise"
                THEN Finish(trader, order.broker, d, "raised",
                            Append(t1, "log SELL raised"), "raised")
                ELSE LET tr == [in_position |-> FALSE, purchase_price |-> None,
                                purchase_date |-> None, position_size |-> 0,
                                last_sell_date |-> now]
                     IN  \E load \in LoadAnswers, save \in SaveAnswers :
                             Finish(tr, order.broker,
                                    save_state(log_event(d, "SELL", log), tr, "main", None,
                                               load, save),
                                    "sell", t1 \o <<"log SELL", "clear">> \o Saved(load, save),
                                    "True")

\* buy_tecl(price, reason); outcome names the rule that called it.
buy_tecl(d, price, outcome, trace) ==
    IF trader.in_position THEN Finish(trader, broker, d, "buy_skipped", trace, "False")
    ELSE \E account \in ApiAnswers :
        IF account # "ok"
        THEN Finish(trader, broker, d, "raised", Append(trace, "account raised"), "raised")
        ELSE LET shares == Shares(broker.buying_power, price)
             IN  IF shares < 1
                 THEN Finish(trader, broker, d, "insufficient", trace, "False")
                 ELSE \E answer \in OrderAnswers :
                     LET order == place_order(broker, "buy", shares, price, now, answer)
                         t1 == Append(trace, IF answer = "ok" THEN "order BUY"
                                             ELSE "order BUY raised")
                     IN  IF ~order.accepted
                         THEN Finish(trader, order.broker, d, "buy_failed", t1, "False")
                         ELSE LET tr == [trader EXCEPT !.in_position = TRUE,
                                                       !.purchase_price = price,
                                                       !.purchase_date = now,
                                                       !.position_size = shares]
                              IN  \E load \in LoadAnswers, save \in SaveAnswers,
                                     log \in LogAnswers :
                                  LET d1 == save_state(d, tr, "main", None, load, save)
                                  IN  IF log = "raise"
                                      THEN Finish(tr, order.broker, d1, "raised",
                                                  t1 \o <<"set">> \o Saved(load, save)
                                                     \o <<"log BUY raised">>,
                                                  "raised")
                                      ELSE Finish(tr, order.broker,
                                                  log_event(d1, "BUY", log), outcome,
                                                  t1 \o <<"set">> \o Saved(load, save)
                                                     \o <<"log BUY">>, "True")

\* logger.info(f"TECL: ..., SMA: ${sma:.2f}, VIX: ..., WMA: ${wma:.2f}") of
\* check_trading_signals: the session's trace tells when it wrote nan for
\* an indicator of the latest row.
LatestLogged(rows) ==
    IF isna(rows.latest.SMA_tecl) \/ isna(rows.latest.WMA_vix)
    THEN <<"indicators nan">> ELSE <<>>

\* Both prices came.
HavePrices(tecl_answers, vix_answers) ==
    /\ get_current_price(tecl_answers).value \notin {None, 0}
    /\ get_current_price(vix_answers).value \notin {None, 0}

\* check_trading_signals, the attempts of its four fetches drawn from the
\* given sets.  A price is missing; or both prices came and a history is
\* missing or short; or the prices and the histories came.
check_trading_signals(trace, tecl_prices, vix_prices, tecl_hists, vix_hists) ==
    \/ \E tecl_answers \in tecl_prices,
          vix_answers \in vix_prices :
           /\ ~HavePrices(tecl_answers, vix_answers)
           /\ Finish(trader, broker, Tables, "no_price",
                     trace \o (IF Exhausted(tecl_answers) THEN <<"TECL price exhausted">>
                                ELSE <<>>)
                           \o (IF Exhausted(vix_answers) THEN <<"VIX price exhausted">>
                                ELSE <<>>),
                     "none")
    \/ \E tecl_hist \in tecl_hists,
          vix_hist \in vix_hists :
       \E tecl_data \in {get_historical_data(tecl_hist).value},
          vix_data \in {get_historical_data(vix_hist).value} :
       \E merged \in {IF tecl_data = <<>> \/ vix_data = <<>> THEN <<>>
                       ELSE LiveFrame(tecl_data, vix_data)} :
           LET t2 == trace \o (IF Exhausted(tecl_hist) THEN <<"TECL history exhausted">>
                               ELSE <<>>)
                          \o (IF Exhausted(vix_hist) THEN <<"VIX history exhausted">>
                               ELSE <<>>)
           IN  IF tecl_data = <<>> \/ vix_data = <<>>
               THEN /\ \E tecl_answers \in tecl_prices,
                          vix_answers \in vix_prices :
                           HavePrices(tecl_answers, vix_answers)
                    /\ Finish(trader, broker, Tables, "no_history", t2, "none")
               ELSE IF Len(merged) < N
               THEN /\ \E tecl_answers \in tecl_prices,
                          vix_answers \in vix_prices :
                           HavePrices(tecl_answers, vix_answers)
                    /\ Finish(trader, broker, Tables, "short", t2, "none")
               ELSE \E rows \in {LiveRows(calculate_indicators(merged))} :
                    \E tecl_answers \in tecl_prices,
                       vix_answers \in vix_prices :
                        /\ HavePrices(tecl_answers, vix_answers)
                        /\ \E b \in {LiveBranch(trader, now,
                                                 get_current_price(tecl_answers).value, rows)},
                              log \in LogAnswers :
                              IF log = "raise"
                              THEN Finish(trader, broker, Tables, "raised",
                                          t2 \o LatestLogged(rows)
                                             \o <<"log SIGNAL_CHECK raised">>, "none")
                              ELSE LET d1 == log_event(Tables, "SIGNAL_CHECK", log)
                                       t3 == (IF Exhausted(tecl_answers)
                                              THEN <<"TECL price exhausted">> ELSE <<>>)
                                             \o (IF Exhausted(vix_answers)
                                                 THEN <<"VIX price exhausted">> ELSE <<>>)
                                             \o t2 \o LatestLogged(rows)
                                             \o <<"log SIGNAL_CHECK">>
                                       tecl_price == get_current_price(tecl_answers).value
                                   IN  CASE b = "sell" -> sell_tecl(d1, tecl_price, t3)
                                         [] b \in {"buy_immediate", "buy_conditional"} ->
                                                buy_tecl(d1, tecl_price, b, t3)
                                         [] OTHER -> Finish(trader, broker, d1, b, t3, "none")

\* Mutant: the session goes on to the signals when the market is closed.
run_trading_session_IgnoresClock(tecl_prices, vix_prices, tecl_hists, vix_hists) ==
    \E clock \in ClockAnswers(now) :
        IF clock = "raise"
        THEN Finish(trader, broker, Tables, "raised", <<"clock raised">>, "none")
        ELSE \E account \in ApiAnswers :
            IF account # "ok"
            THEN Finish(trader, broker, Tables, "raised",
                        <<"clock " \o clock, "account raised">>, "none")
            ELSE check_trading_signals(<<"clock " \o clock>>, tecl_prices, vix_prices,
                                       tecl_hists, vix_hists)

\* run_trading_session, the fetches of check_trading_signals as above.
run_trading_session(tecl_prices, vix_prices, tecl_hists, vix_hists) ==
    \E clock \in ClockAnswers(now) :
        IF clock = "raise"
        THEN Finish(trader, broker, Tables, "raised", <<"clock raised">>, "none")
        ELSE IF clock = "closed"
        THEN Finish(trader, broker, Tables, "closed", <<"clock closed">>, "none")
        ELSE \E account \in ApiAnswers :
            IF account # "ok"
            THEN Finish(trader, broker, Tables, "raised",
                        <<"clock open", "account raised">>, "none")
            ELSE check_trading_signals(<<"clock open">>, tecl_prices, vix_prices,
                                       tecl_hists, vix_hists)

\* run_trading_session on the trader object.
RunTradingSession ==
    /\ Len(broker.orders) < MaxOrders
    /\ \E tecl_prices \in {AttemptRuns(LivePrices, None)},
          vix_prices \in {AttemptRuns(LiveVixPrices, None)},
          tecl_hists \in {AttemptRuns(TeclHistories(now), <<>>)},
          vix_hists \in {AttemptRuns(VixHistories(now), <<>>)} :
           run_trading_session(tecl_prices, vix_prices, tecl_hists, vix_hists)
    /\ UNCHANGED scheduler

\* AlpacaLiveTrader(): a new object, synced with the broker and the table.
NewTrader ==
    /\ \E load \in ApiAnswers, positions \in ApiAnswers :
          /\ trader' = sync_position_state(load_state(db, "main", load), positions,
                                           broker, now)
          /\ session' = [session EXCEPT
                            !.outcome = IF positions = "ok" THEN "synced" ELSE "sync_failed",
                            !.trace = <<>>, !.events = {}, !.returned = "none"]
    /\ UNCHANGED <<broker, db, now, callVars, scheduler, backtestVars, mainVars>>

\* The next calendar day.
Tick ==
    /\ \E d \in LiveFirstDays : now < d + MaxDays - 1
    /\ now' = now + 1
    /\ UNCHANGED <<trader, broker, db, session, callVars, scheduler, backtestVars, mainVars>>

InitLive ==
    /\ BacktestIdle
    /\ scheduler = NoSchedule
    /\ fetch = NoFetch
    /\ handler = NoHandlerCall
    /\ MainIdle
    /\ now \in LiveFirstDays
    /\ broker \in LiveAccounts
    /\ \E items \in LiveSnapshots : db = [state_table |-> items]
    /\ \E load \in ApiAnswers, positions \in ApiAnswers :
          /\ trader = sync_position_state(load_state(db, "main", load), positions,
                                          broker, now)
          /\ session = [outcome |-> IF positions = "ok" THEN "synced" ELSE "sync_failed",
                        trace |-> <<>>, events |-> {}, returned |-> "none"]

NextLive == RunTradingSession \/ NewTrader \/ Tick

SpecLive == InitLive /\ [][NextLive]_vars

(***************************************************************************)
(* One call of get_current_price or of get_historical_data, over every     *)
(* run of answers of its attempts: a price or a frame of bars, no data, a  *)
(* rate limit or another error.                                            *)
(***************************************************************************)
FetchPrices == {7000, 10000}
FetchFrames == {History(len, 1, 10000, 0, 10000) : len \in {1, 2}}

FetchAnswers(values, nodata) ==
    [1..max_retries ->
        {Data(v) : v \in values}
        \cup {NoData(k, nodata) : k \in {"empty", "rate_limit", "error"}}]

InitFetch ==
    /\ BacktestIdle
    /\ scheduler = NoSchedule
    /\ MainIdle
    /\ trader = DefaultTrader
    /\ broker = [position |-> NoPosition, buying_power |-> 0, orders |-> <<>>]
    /\ db = [state_table |-> {}]
    /\ now = 0
    /\ session = [outcome |-> "idle", trace |-> <<>>, events |-> {}, returned |-> "none"]
    /\ handler = NoHandlerCall
    /\ \/ \E answers \in FetchAnswers(FetchPrices, None) :
             fetch = [NoFetch EXCEPT !.what = "price", !.answers = answers]
       \/ \E answers \in FetchAnswers(FetchFrames, <<>>) :
             fetch = [NoFetch EXCEPT !.what = "history", !.answers = answers]

GetCurrentPrice ==
    /\ fetch.what = "price"
    /\ ~fetch.returned
    /\ fetch' = [fetch EXCEPT !.returned = TRUE,
                              !.result = get_current_price(fetch.answers)]
    /\ UNCHANGED <<trader, broker, db, now, session, handler, scheduler, backtestVars,
                   mainVars>>

GetHistoricalData ==
    /\ fetch.what = "history"
    /\ ~fetch.returned
    /\ fetch' = [fetch EXCEPT !.returned = TRUE,
                              !.result = get_historical_data(fetch.answers)]
    /\ UNCHANGED <<trader, broker, db, now, session, handler, scheduler, backtestVars,
                   mainVars>>

NextFetch == GetCurrentPrice \/ GetHistoricalData

SpecFetch == InitFetch /\ [][NextFetch]_vars

(***************************************************************************)
(* DynamoDBHandler called directly, as tests/test_dynamodb.py and          *)
(* tests/test_full_flow.py do: save_state and load_state under two trader  *)
(* identifiers, over every answer of get_item and put_item.                *)
(***************************************************************************)

\* trader_id defaults to "main"; the tests save under "test".
TraderIds == {"main", "test"}

\* The five values of a save_state call: the flat state, the state of
\* test_dynamodb.py (115.50, 100 shares), and a state with a price of odd
\* cents after an earlier sale.
StoreArgs ==
    { DefaultTrader,
      [in_position |-> TRUE, purchase_price |-> 11550, purchase_date |-> 0,
       position_size |-> 100, last_sell_date |-> None],
      [in_position |-> TRUE, purchase_price |-> 7001, purchase_date |-> 1,
       position_size |-> 13, last_sell_date |-> 0] }

\* initial_capital of a save_state call: not passed, or a balance.
StoreCapitals == {None, 1000000, 2500000}

\* float(x) of an int, in hundredths.
FloatOf(i) == i * 100

InitStore ==
    /\ BacktestIdle
    /\ scheduler = NoSchedule
    /\ MainIdle
    /\ trader = DefaultTrader
    /\ broker = [position |-> NoPosition, buying_power |-> 0, orders |-> <<>>]
    /\ now = 0
    /\ session = [outcome |-> "idle", trace |-> <<>>, events |-> {}, returned |-> "none"]
    /\ fetch = NoFetch
    /\ handler = NoHandlerCall
    /\ \/ db = [state_table |-> {}]
       \/ \E capital \in StoreCapitals \ {None} :
             db = [state_table |-> {StateItem(DefaultTrader, "main", capital)}]

\* save_state(in_position, purchase_price, purchase_date, position_size,
\* last_sell_date, initial_capital, trader_id).
SaveState ==
    \E trader_id \in TraderIds, args \in StoreArgs, initial_capital \in StoreCapitals,
       load \in LoadAnswers, answer \in SaveAnswers :
        /\ db' = save_state(db, args, trader_id, initial_capital, load, answer)
        /\ handler' = [call |-> "save_state", trader_id |-> trader_id, args |-> args,
                       initial_capital |-> initial_capital, load |-> load,
                       answer |-> answer,
                       returned |-> save_state_returns(load, answer), state |-> {}]
        /\ UNCHANGED <<trader, broker, now, session, fetch, scheduler, backtestVars,
                       mainVars>>

\* load_state(trader_id): the item without its key, {} on ClientError or
\* when there is no item; any other error leaves the call.
LoadState ==
    \E trader_id \in TraderIds, load \in LoadAnswers :
        /\ handler' = [NoHandlerCall EXCEPT
                          !.call = "load_state", !.trader_id = trader_id, !.load = load,
                          !.returned = IF load = "raise" THEN "raised" ELSE "state",
                          !.state = load_state(db, trader_id, load)]
        /\ UNCHANGED <<trader, broker, db, now, session, fetch, scheduler, backtestVars,
                       mainVars>>

NextStore == SaveState \/ LoadState

SpecStore == InitStore /\ [][NextStore]_vars

(***************************************************************************)
(* scheduler.py.  start_scheduler calls run_trading_check once and then    *)
(* each time the job of schedule.every(30).minutes is due, with            *)
(* time.sleep(60) between two looks at the schedule.  scheduler.pc is the   *)
(* position: "off" before start_scheduler, "check" at the head of          *)
(* run_trading_check, "created" after AlpacaLiveTrader() returned, "loop"  *)
(* in the while loop, "stopped" after a KeyboardInterrupt.  scheduler.tick *)
(* is the reading of the clock, scheduler.last and scheduler.before how    *)
(* the last two checks ended, scheduler.round the parity of their number.  *)
(***************************************************************************)

\* Readings of datetime.now(et_tz) in ascending order: a Tuesday around
\* 9:30 and 16:00, and a Saturday.
SchedulerClock ==
    << [day |-> 1, hour |-> 9, minute |-> 29, second |-> 59, microsecond |-> 999999],
       [day |-> 1, hour |-> 9, minute |-> 30, second |-> 0, microsecond |-> 0],
       [day |-> 1, hour |-> 12, minute |-> 0, second |-> 0, microsecond |-> 0],
       [day |-> 1, hour |-> 16, minute |-> 0, second |-> 0, microsecond |-> 0],
       [day |-> 1, hour |-> 16, minute |-> 0, second |-> 0, microsecond |-> 1],
       [day |-> 5, hour |-> 12, minute |-> 0, second |-> 0, microsecond |-> 0] >>

\* The price of TECL the sessions of the scheduler see.
SchedulerPrices == {13000}

\* a <= b on two datetimes.
NotAfter(a, b) ==
    \/ a.day < b.day
    \/ /\ a.day = b.day
       /\ \/ a.hour < b.hour
          \/ /\ a.hour = b.hour
             /\ \/ a.minute < b.minute
                \/ /\ a.minute = b.minute
                   /\ \/ a.second < b.second
                      \/ a.second = b.second /\ a.microsecond <= b.microsecond

\* now_et.replace(hour=h, minute=m, second=0, microsecond=0)
Replace(now_et, h, m) ==
    [now_et EXCEPT !.hour = h, !.minute = m, !.second = 0, !.microsecond = 0]

\* Mutant: the weekend is not skipped.
is_market_hours_EveryDay(now_et) ==
    NotAfter(Replace(now_et, 9, 30), now_et) /\ NotAfter(now_et, Replace(now_et, 16, 0))

is_market_hours(now_et) ==
    IF Weekday(now_et.day) >= 5 THEN FALSE
    ELSE LET market_open  == Replace(now_et, 9, 30)
             market_close == Replace(now_et, 16, 0)
         IN  NotAfter(market_open, now_et) /\ NotAfter(now_et, market_close)

\* run_trading_check returned.
CheckEnds(how) ==
    [scheduler EXCEPT !.pc = "loop", !.slept = FALSE, !.before = scheduler.last,
                      !.last = how, !.round = 1 - @]

InitScheduler ==
    /\ BacktestIdle
    /\ MainIdle
    /\ fetch = NoFetch
    /\ handler = NoHandlerCall
    /\ trader = DefaultTrader
    /\ broker \in LiveAccounts
    /\ db = [state_table |-> {}]
    /\ session = [outcome |-> "idle", trace |-> <<>>, events |-> {}, returned |-> "none"]
    /\ \E t \in 1..Len(SchedulerClock) :
          /\ scheduler = [NoSchedule EXCEPT !.tick = t]
          /\ now = SchedulerClock[t].day

\* start_scheduler up to its initial check.
StartScheduler ==
    /\ scheduler.pc = "off"
    /\ scheduler' = [scheduler EXCEPT !.pc = "check"]
    /\ UNCHANGED <<trader, broker, db, now, session, callVars, backtestVars, mainVars>>

\* run_trading_check up to the return of AlpacaLiveTrader(): outside
\* market hours it returns; the constructor returns a synced trader or
\* raises, and what it raises is caught.
RunTradingCheck ==
    /\ scheduler.pc = "check"
    /\ IF ~is_market_hours(SchedulerClock[scheduler.tick])
       THEN /\ scheduler' = CheckEnds("skipped")
            /\ UNCHANGED <<trader, session>>
       ELSE \E credentials \in ApiAnswers :
               IF credentials = "raise"
               THEN /\ scheduler' = CheckEnds("failed")
                    /\ UNCHANGED <<trader, session>>
               ELSE /\ \E load \in ApiAnswers, positions \in ApiAnswers :
                          /\ trader' = sync_position_state(load_state(db, "main", load),
                                                           positions, broker, now)
                          /\ session' = [outcome |-> IF positions = "ok" THEN "synced"
                                                     ELSE "sync_failed",
                                         trace |-> <<>>, events |-> {},
                                         returned |-> "none"]
                    /\ scheduler' = [scheduler EXCEPT !.pc = "created"]
    /\ UNCHANGED <<broker, db, now, callVars, backtestVars, mainVars>>

\* run_trading_check from trader.run_trading_session() on.
RunCheckSession ==
    /\ scheduler.pc = "created"
    /\ \E tecl_prices \in {AttemptRuns(SchedulerPrices, None)},
          vix_prices \in {AttemptRuns(LiveVixPrices, None)},
          tecl_hists \in {AttemptRuns(TeclHistories(now), <<>>)},
          vix_hists \in {AttemptRuns(VixHistories(now), <<>>)} :
           run_trading_session(tecl_prices, vix_prices, tecl_hists, vix_hists)
    /\ scheduler' = CheckEnds("completed")

\* time.sleep(60) in the loop: the clock goes on.
Sleep ==
    /\ scheduler.pc = "loop"
    /\ \E t \in scheduler.tick..Len(SchedulerClock) :
          /\ scheduler' = [scheduler EXCEPT !.tick = t, !.slept = TRUE]
          /\ now' = SchedulerClock[t].day
    /\ UNCHANGED <<trader, broker, db, session, callVars, backtestVars, mainVars>>

\* schedule.run_pending() when the job is due.
RunPending ==
    /\ scheduler.pc = "loop"
    /\ scheduler.slept
    /\ scheduler' = [scheduler EXCEPT !.pc = "check"]
    /\ UNCHANGED <<trader, broker, db, now, session, callVars, backtestVars, mainVars>>

\* KeyboardInterrupt in the loop: the scheduler is stopped by the user.
KeyboardInterrupt ==
    /\ scheduler.pc = "loop"
    /\ scheduler' = [scheduler EXCEPT !.pc = "stopped"]
    /\ UNCHANGED <<trader, broker, db, now, session, callVars, backtestVars, mainVars>>

NextScheduler ==
    \/ StartScheduler
    \/ RunTradingCheck
    \/ RunCheckSession
    \/ Sleep
    \/ RunPending
    \/ KeyboardInterrupt

SpecScheduler == InitScheduler /\ [][NextScheduler]_vars

\* The process runs, time.sleep returns, and the job comes due every 30
\* minutes.
FairScheduler ==
    /\ SpecScheduler
    /\ WF_vars(StartScheduler)
    /\ WF_vars(RunTradingCheck)
    /\ WF_vars(RunCheckSession)
    /\ WF_vars(Sleep)
    /\ WF_vars(RunPending)

(***************************************************************************)
(* SpecTwin: backtest_trading and the live trader on the same joint        *)
(* series.  alt_df is the series, of TwinRows rows; merged_df the rows the *)
(* loop of backtest_trading has passed.  From row N on, before the loop    *)
(* passes a row, a new trader object is started on the day of the row, on  *)
(* an account and a state table that hold what the loop holds (the         *)
(* position at its purchase price, the date of the last sell), and runs    *)
(* one trading session whose fetches, when they succeed, return the row's  *)
(* opens as the current prices and the series up to the row as the         *)
(* histories.                                                              *)
(***************************************************************************)
TwinRows == 35

TwinOpens     == {10000, 11000}
TwinFlatOpens == {11000}
TwinLastOpens == {10000, 11000, 18000}
TwinFunds     == {100000, 5000}
TwinShares    == {9}

\* The k-th business day from day 0, a Monday.
BusinessDay(k) == 7 * (k \div 5) + (k % 5)

\* A joint series as merge_data delivers it.  Rows 1 .. N are those of
\* Spec; row N + 1 opens at a and v, row N + 2 at b, row N + 3 at c, row
\* N + 5 at e; the rows lie on business days in a row, or with one market
\* holiday before the row of HolidayRows.
TwinFrame(holiday, a, v, b, c, e) ==
    [t \in 1..TwinRows |->
        [Date |-> BusinessDay(t - 1 + (IF holiday /\ \A h \in HolidayRows : t >= h
                                       THEN 1 ELSE 0)),
         Open_tecl |-> IF t <= N THEN CHOOSE o \in BaseOpens : TRUE
                       ELSE IF t = N + 1 THEN a
                       ELSE IF t = N + 2 THEN b
                       ELSE IF t = N + 3 THEN c
                       ELSE IF t = N + 5 THEN e
                       ELSE CHOOSE o \in TwinFlatOpens : TRUE,
         OPEN_vix |-> IF t <= N THEN VixRamp(t)
                      ELSE IF t = N + 1 THEN v
                      ELSE CHOOSE o \in CalmVix : TRUE,
         SMA_tecl |-> NaNFrac, WMA_vix |-> NaNFrac]]

TwinFrames ==
    {TwinFrame(holiday, a, v, b, c, e) :
        holiday \in BOOLEAN, a \in TwinOpens, v \in CalmVix \cup SpikeVix,
        b \in TwinOpens, c \in TwinOpens, e \in TwinLastOpens}

InitTwin ==
    /\ merged_df = <<>>
    /\ pos = 0
    /\ InitState
    /\ branch = "start"
    /\ alt_df \in TwinFrames
    /\ alt_state = InitialState
    /\ LiveIdle
    /\ MainIdle

\* The account that holds what the loop of backtest_trading holds.
TwinAccounts(s) ==
    IF s.in_position
    THEN {[position |-> [qty |-> q, avg_entry_price |-> s.purchase_price],
           buying_power |-> 0, orders |-> <<>>] : q \in TwinShares}
    ELSE {[position |-> NoPosition, buying_power |-> f, orders |-> <<>>] : f \in TwinFunds}

\* The state table a trader that sold on last_sell_date left behind.
TwinSnapshot(s) ==
    IF s.in_position \/ s.last_sell_date = None THEN {}
    ELSE {StateItem([in_position |-> FALSE, purchase_price |-> None,
                     purchase_date |-> None, position_size |-> 0,
                     last_sell_date |-> s.last_sell_date], "main", None)}

\* The daily bars of one column of the series up to its row t.
TwinHistory(t, column) ==
    [k \in 1..t |-> [Date |-> alt_df[k].Date, Open |-> alt_df[k][column]]]

\* AlpacaLiveTrader() on the day of the row the loop passes next.
TwinNewTrader ==
    /\ pos + 1 \in N..Len(alt_df)
    /\ now # alt_df[pos + 1].Date
    /\ now' = alt_df[pos + 1].Date
    /\ broker' \in TwinAccounts(State)
    /\ db' = [state_table |-> TwinSnapshot(State)]
    /\ \E load \in ApiAnswers, positions \in ApiAnswers :
          /\ trader' = sync_position_state(load_state(db', "main", load), positions,
                                           broker', now')
          /\ session' = [outcome |-> IF positions = "ok" THEN "synced" ELSE "sync_failed",
                         trace |-> <<>>, events |-> {}, returned |-> "none"]
    /\ UNCHANGED <<callVars, scheduler, backtestVars, mainVars>>

\* run_trading_session of that trader on that day.
TwinSession ==
    /\ pos + 1 \in N..Len(alt_df)
    /\ now = alt_df[pos + 1].Date
    /\ session.outcome \in {"synced", "sync_failed"}
    /\ \E tecl_prices \in {AttemptRuns({alt_df[pos + 1].Open_tecl}, None)},
          vix_prices \in {AttemptRuns({alt_df[pos + 1].OPEN_vix}, None)},
          tecl_hists \in {AttemptRuns({TwinHistory(pos + 1, "Open_tecl")}, <<>>)},
          vix_hists \in {AttemptRuns({TwinHistory(pos + 1, "OPEN_vix")}, <<>>)} :
           run_trading_session(tecl_prices, vix_prices, tecl_hists, vix_hists)
    /\ UNCHANGED scheduler

\* The loop of backtest_trading passes the row.
TwinRow ==
    /\ pos < Len(alt_df)
    /\ \/ pos + 1 < N
       \/ now = alt_df[pos + 1].Date /\ session.outcome \notin {"synced", "sync_failed"}
    /\ PassRow(alt_df[pos + 1])

NextTwin == TwinNewTrader \/ TwinSession \/ TwinRow

SpecTwin == InitTwin /\ [][NextTwin]_vars

(***************************************************************************)
(* SpecReturn: one call of annualized_return on Python numbers, with funds *)
(* that are negative, zero or positive and dates in either order.          *)
(***************************************************************************)
ReturnFunds == {-20000, -10000, 0, 5000, 10000, 20000}
ReturnDates == {0, 1, 366, 731}

InitReturn ==
    /\ BacktestIdle
    /\ LiveIdle
    /\ files = NoFiles
    /\ mainrun = NoRun
    /\ \E starting_fund \in ReturnFunds, final_fund \in ReturnFunds,
          start_date \in ReturnDates, end_date \in ReturnDates :
           annual = [args |-> [starting_fund |-> Frac(starting_fund, 1),
                               final_fund |-> Frac(final_fund, 1),
                               start_date |-> start_date, end_date |-> end_date],
                     result |-> NoResult]

\* The call returns or raises.
AnnualizedReturn ==
    /\ annual.result = NoResult
    /\ annual' = [annual EXCEPT !.result =
                      annualized_return(annual.args.starting_fund, annual.args.final_fund,
                                        annual.args.start_date, annual.args.end_date)]
    /\ UNCHANGED <<backtestVars, liveVars, files, mainrun>>

SpecReturn == InitReturn /\ [][AnnualizedReturn]_vars

(***************************************************************************)
(* SpecMain: main() on two CSV files of at most MaxFileRows rows with      *)
(* distinct dates in any order.  A file may lack its date column or its    *)
(* open column, and the TECL file may pad its column names.  TECL opens    *)
(* at 100.00 plus 1.00 a day, VIX at 20.00 plus 0.10 a day, so that a      *)
(* value tells the row it came from.                                       *)
(***************************************************************************)
MaxFileRows == 3

FileDays == {0, 1, 2}
TeclHeaders == {<<"Date", "Open">>, <<" Date", "Open ">>, <<"Open">>, <<"Date", "Close">>}
VixHeaders  == {<<"DATE", "OPEN">>, <<"OPEN">>, <<"DATE", "CLOSE">>}

TeclOpenOn(d) == 10000 + 100 * d
VixOpenOn(d)  == 2000 + 10 * d

\* The sequences of at most MaxFileRows distinct days.
DaySeqs ==
    UNION {{seq \in [1..n -> FileDays] : \A i, j \in 1..n : i # j => seq[i] # seq[j]} :
              n \in 0..MaxFileRows}

CsvFile(header, days, symbol) ==
    [header |-> header,
     rows |-> [t \in 1..Len(days) |->
                 [i \in 1..Len(header) |->
                     IF Strip(header[i]) \in {"Date", "DATE"} THEN days[t]
                     ELSE IF symbol = "TECL" THEN TeclOpenOn(days[t])
                     ELSE VixOpenOn(days[t])]]]

InitMain ==
    /\ BacktestIdle
    /\ LiveIdle
    /\ \E th \in TeclHeaders, vh \in VixHeaders, td \in DaySeqs, vd \in DaySeqs :
           files = [tecl |-> CsvFile(th, td, "TECL"), vix |-> CsvFile(vh, vd, "VIX")]
    /\ mainrun = [NoRun EXCEPT !.stage = "start"]
    /\ annual = [args |-> NoCall, result |-> NoResult]

\* main(): load_data of both files and add_suffix on both frames.
LoadData ==
    /\ mainrun.stage = "start"
    /\ LET tecl == load_data(files.tecl, "Date")
           vix == load_data(files.vix, "DATE")
       IN  mainrun' =
               IF tecl.error # "none"
               THEN [mainrun EXCEPT !.stage = "failed", !.error = tecl.error]
               ELSE IF vix.error # "none"
               THEN [mainrun EXCEPT !.stage = "failed", !.error = vix.error]
               ELSE [mainrun EXCEPT !.stage = "loaded",
                                    !.tecl_df = add_suffix(tecl.df, "_tecl"),
                                    !.vix_df = add_suffix(vix.df, "_vix")]
    /\ UNCHANGED <<backtestVars, liveVars, files, annual>>

\* main(): merged_df = merge_data(tecl_df, vix_df).
MergeData ==
    /\ mainrun.stage = "loaded"
    /\ \E merged \in {merge_data(mainrun.tecl_df, mainrun.vix_df)} :
          /\ merged_df' = merged.rows
          /\ mainrun' = [mainrun EXCEPT !.stage = "merged", !.columns = merged.columns]
    /\ UNCHANGED <<pos, fund, bank, in_position, purchase_price, trades, last_sell_date,
                   branch, alt_df, alt_state, liveVars, files, annual>>

\* main(): merged_df = calculate_indicators(merged_df); a KeyError when
\* merged_df has no Open_tecl or no OPEN_vix column.
MainIndicators ==
    /\ mainrun.stage = "merged"
    /\ IF {"Open_tecl", "OPEN_vix"} \subseteq mainrun.columns
       THEN /\ merged_df' = [t \in 1..Len(merged_df) |-> calculate_indicators(merged_df)[t]]
            /\ mainrun' = [mainrun EXCEPT !.stage = "backtest",
                                          !.columns = @ \cup {"SMA_tecl", "WMA_vix"}]
       ELSE /\ merged_df' = merged_df
            /\ mainrun' = [mainrun EXCEPT !.stage = "failed", !.error = "KeyError"]
    /\ UNCHANGED <<pos, fund, bank, in_position, purchase_price, trades, last_sell_date,
                   branch, alt_df, alt_state, liveVars, files, annual>>

\* The loop of backtest_trading passes the next row.
MainRow ==
    /\ mainrun.stage = "backtest"
    /\ pos < Len(merged_df)
    /\ pos' = pos + 1
    /\ \E b \in {Branch(State, merged_df, pos + 1)} :
          /\ branch' = b
          /\ SetState(Apply(b, State, merged_df, pos + 1))
    /\ UNCHANGED <<merged_df, alt_df, alt_state, liveVars, mainVars>>

\* main() after the loop: the date range of merged_df (strftime on the
\* NaT of an empty index raises ValueError) and the annualized return.
MainReport ==
    /\ mainrun.stage = "backtest"
    /\ pos = Len(merged_df)
    /\ mainrun' =
          IF merged_df = <<>>
          THEN [mainrun EXCEPT !.stage = "failed", !.error = "ValueError"]
          ELSE LET r == annualized_return(Frac(initial_fund, 1), fund,
                                          merged_df[1].Date, merged_df[Len(merged_df)].Date)
               IN  IF r.kind = "float"
                   THEN [mainrun EXCEPT !.stage = "done", !.annual_return = r]
                   ELSE [mainrun EXCEPT !.stage = "failed", !.error = r.kind]
    /\ UNCHANGED <<backtestVars, liveVars, files, annual>>

NextMain == LoadData \/ MergeData \/ MainIndicators \/ MainRow \/ MainReport

SpecMain == InitMain /\ [][NextMain]_vars

(***************************************************************************)
(* SpecPair: calculate_indicators and backtest_trading on two complete     *)
(* joint series that agree before some row and differ from it on.          *)
(***************************************************************************)
PairRows == 33

PairTail == {<<10000, 2000>>, <<11000, 3000>>}

PairNextRows(df) ==
    LET t == Len(df) + 1
    IN  IF t <= N THEN NextRows(df)
        ELSE {[Date |-> BDay1(df[Len(df)].Date), Open_tecl |-> o[1], OPEN_vix |-> o[2],
               SMA_tecl |-> NaNFrac, WMA_vix |-> NaNFrac] : o \in PairTail}

RECURSIVE SeriesFrom(_)
SeriesFrom(df) ==
    IF Len(df) = PairRows THEN {df}
    ELSE UNION {SeriesFrom(Append(df, row)) : row \in PairNextRows(df)}

\* The rows from which the second series may differ.
SplitRows == {1} \cup (N..PairRows)

\* df with row T, and with all set every later row too, given other opens.
Raised(row) == [row EXCEPT !.Open_tecl = @ + 1000, !.OPEN_vix = @ + 1000]

AltAt(df, T, all) ==
    [t \in 1..Len(df) |-> IF t = T \/ (all /\ t > T) THEN Raised(df[t]) ELSE df[t]]

\* The first row at which two series of one length differ (past the end if none).
FirstDiff(a, b) ==
    LET D == {t \in 1..Len(a) :
                 a[t].Date # b[t].Date \/ a[t].Open_tecl # b[t].Open_tecl
                 \/ a[t].OPEN_vix # b[t].OPEN_vix}
    IN  IF D = {} THEN Len(a) + 1 ELSE CHOOSE t \in D : \A u \in D : t <= u

InitPair ==
    /\ merged_df \in SeriesFrom(<<>>)
    /\ \E T \in SplitRows, all \in BOOLEAN : alt_df = AltAt(merged_df, T, all)
    /\ pos = 0
    /\ InitState
    /\ branch = "merged"
    /\ alt_state = InitialState
    /\ LiveIdle
    /\ MainIdle

\* main(): merged_df = calculate_indicators(merged_df), on both series.
CalculateIndicators ==
    /\ branch = "merged"
    /\ merged_df' = [t \in 1..Len(merged_df) |-> calculate_indicators(merged_df)[t]]
    /\ alt_df' = [t \in 1..Len(alt_df) |-> calculate_indicators(alt_df)[t]]
    /\ branch' = "start"
    /\ UNCHANGED <<pos, fund, bank, in_position, purchase_price, trades,
                   last_sell_date, alt_state, liveVars, mainVars>>

\* The loop of backtest_trading passes the next row, on both series.
IterBoth ==
    /\ branch # "merged"
    /\ pos < Len(merged_df)
    /\ pos' = pos + 1
    /\ \E b \in {Branch(State, merged_df, pos + 1)} :
          /\ branch' = b
          /\ SetState(Apply(b, State, merged_df, pos + 1))
    /\ alt_state' = LoopBody(alt_state, alt_df, pos + 1)
    /\ UNCHANGED <<merged_df, alt_df, liveVars, mainVars>>

NextPair == CalculateIndicators \/ IterBoth

SpecPair == InitPair /\ [][NextPair]_vars

(***************************************************************************)
(* Properties.                                                             *)
(***************************************************************************)
IsBuy(r)  == r.action \in {"buy (immediate low TECL)", "buy (with VIX condition)"}
IsSell(r) == r.action = "sell"

Locals == <<fund, bank, in_position, purchase_price, trades, last_sell_date>>

\* The row the loop has just passed.
Row == merged_df[pos]

\* The position of the row dated d.
RowOfDate(d) == CHOOSE t \in 1..Len(merged_df) : merged_df[t].Date = d

\* The sum of column name over rows lo..hi of df.
RECURSIVE SumRows(_, _, _, _)
SumRows(df, name, lo, hi) ==
    IF lo > hi THEN 0 ELSE df[lo][name] + SumRows(df, name, lo + 1, hi)

NoMissing(df, name, lo, hi) == \A u \in lo..hi : df[u][name] # NaN

\* C1: the trade list never holds a BUY while a position is open: events
\* alternate BUY, SELL, BUY, ... from a first BUY, and the position is open
\* exactly after a BUY, so a SELL is only ever recorded while LONG.
TradesAlternate ==
    /\ \A i \in 1..Len(trades) :
          IF i % 2 = 1 THEN IsBuy(trades[i]) ELSE IsSell(trades[i])
    /\ in_position = (Len(trades) % 2 = 1)

TwoRoundTrips == Len(trades) >= 4 /\ IsSell(trades[4])

\* C2: whatever the calendar gap between consecutive rows, no BUY is
\* recorded on the row right after a row on which a SELL was recorded.
NoBuyOnRowAfterSell ==
    \A i \in 1..(Len(trades) - 1) :
        IsSell(trades[i]) =>
            RowOfDate(trades[i + 1].date) # RowOfDate(trades[i].date) + 1

\* C3: while LONG, a row with indicators sells exactly when its price is at
\* least 1.058 times the purchase price, the boundary included (purchase
\* price 100.00: 105.80 sells, 105.79 does not); a LONG row that does not
\* sell changes nothing.
SellExactlyAtThreshold ==
    [][(pos' = pos + 1 /\ in_position /\ branch' # "skip") =>
          LET p == merged_df'[pos'].Open_tecl
          IN  IF p # NaN /\ 1000 * p >= 1058 * purchase_price
              THEN branch' = "sell" /\ ~in_position' /\ Len(trades') = Len(trades) + 1
              ELSE branch' = "hold" /\ UNCHANGED Locals]_vars

WarmUpAbsent ==
    \A t \in 1..Len(merged_df) :
        LET row == merged_df[t]
        IN  IF t <= N
            THEN /\ isna(row.SMA_tecl) /\ isna(row.WMA_vix)
                 /\ row.SMA_tecl.d = 0 /\ row.WMA_vix.d = 0
            ELSE /\ NoMissing(merged_df, "Open_tecl", t - N, t - 1)
                      => ~isna(row.SMA_tecl) /\ row.SMA_tecl.d # 0
                 /\ NoMissing(merged_df, "OPEN_vix", t - N, t - 1)
                      => ~isna(row.WMA_vix) /\ row.WMA_vix.d # 0

PastWarmUp ==
    /\ pos >= N + 2
    /\ isna(merged_df[N].SMA_tecl) /\ ~isna(merged_df[N + 1].SMA_tecl)
    /\ isna(merged_df[N].WMA_vix) /\ ~isna(merged_df[N + 1].WMA_vix)
    /\ NoMissing(merged_df, "Open_tecl", 1, pos)
    /\ NoMissing(merged_df, "OPEN_vix", 1, pos)

\* C7: a row whose sma or wma is absent changes nothing: position,
\* purchase_price, fund, bank, last_sell_date and the trade list stay as
\* they were, even when LONG with the row's price at the sell threshold.
AbsentIndicatorSkips ==
    [][(pos' = pos + 1
        /\ (isna(merged_df'[pos'].SMA_tecl) \/ isna(merged_df'[pos'].WMA_vix)))
       => UNCHANGED Locals]_vars

SkippedWhileLongAtThreshold ==
    /\ branch = "skip"
    /\ in_position
    /\ ~isna(Row.SMA_tecl) /\ isna(Row.WMA_vix)
    /\ Row.Open_tecl # NaN
    /\ 1000 * Row.Open_tecl > 1058 * purchase_price

\* C8: for every row T >= N + 1 the sma of row T is the arithmetic mean of
\* Open_tecl over rows T - N .. T - 1: the window ends strictly before T.
SmaIsMeanOfPreviousN ==
    \A t \in (N + 1)..Len(merged_df) :
        NoMissing(merged_df, "Open_tecl", t - N, t - 1) =>
            LET sma == merged_df[t].SMA_tecl
            IN  /\ sma.d # 0
                /\ sma.n * N = sma.d * SumRows(merged_df, "Open_tecl", t - N, t - 1)

SmaOverMixedWindow ==
    /\ pos >= N + 3
    /\ ~isna(Row.SMA_tecl)
    /\ merged_df[pos - 1].Open_tecl # merged_df[pos - 2].Open_tecl
    /\ Row.Open_tecl # merged_df[pos - 1].Open_tecl

\* C9: for every row T >= N + 1 the wma of row T is the weighted mean of
\* OPEN_vix over rows T - N .. T - 1 in which the day k back (k = 1 is row
\* T - 1) weighs (N - k + 1) / (N (N + 1) / 2); the weights strictly grow
\* toward the most recent day and sum to 1.
WeightedSumBack(df, t) ==
    LET F[k \in 0..N] ==
            IF k = 0 THEN 0 ELSE F[k - 1] + (N - k + 1) * df[t - k].OPEN_vix
    IN  F[N]

WmaIsLinearWeightedMean ==
    /\ \A t \in (N + 1)..Len(merged_df) :
          NoMissing(merged_df, "OPEN_vix", t - N, t - 1) =>
              LET wma == merged_df[t].WMA_vix
              IN  /\ wma.d # 0
                  /\ wma.n * ((N * (N + 1)) \div 2) = wma.d * WeightedSumBack(merged_df, t)
    /\ \A k \in 1..(N - 1) : weights[N - k + 1] > weights[N - k]
    /\ SumSeq(weights) = (N * (N + 1)) \div 2

WmaOverSpikedWindow ==
    /\ pos >= N + 3
    /\ ~isna(Row.WMA_vix)
    /\ merged_df[N + 1].OPEN_vix = 3000

\* C10: no look-ahead.  For two joint series that agree before row T and
\* differ from row T on, calculate_indicators gives row T the same sma and
\* wma, and backtest_trading is in the same state, with the same trade
\* events, after every row before T.
NoLookAhead ==
    branch # "merged" =>
        LET T == FirstDiff(merged_df, alt_df)
        IN  /\ T <= Len(merged_df) =>
                  /\ merged_df[T].SMA_tecl = alt_df[T].SMA_tecl
                  /\ merged_df[T].WMA_vix = alt_df[T].WMA_vix
            /\ pos < T => State = alt_state

TradedBeforeSplit ==
    /\ branch # "merged"
    /\ FirstDiff(merged_df, alt_df) = pos + 1
    /\ pos + 1 <= Len(merged_df)
    /\ ~isna(merged_df[pos + 1].SMA_tecl)
    /\ trades # <<>>

\* C11: on a FLAT row with indicators, not in cooldown, the BUY rules are
\* tried in order and the first match wins: price < 0.75 * sma (strict) is
\* an immediate buy even when the conditional rule matches too; otherwise
\* price < 1.25 * sma (strict) with the OPEN_vix of four rows earlier
\* > 1.04 * the wma of that row (strict) is a conditional buy; otherwise
\* nothing changes.  A buy sets purchase_price to the price and the state
\* to LONG.
ExactImmediate(row) ==
    row.Open_tecl # NaN /\ 4 * row.Open_tecl * row.SMA_tecl.d < 3 * row.SMA_tecl.n

ExactConditional(df, t) ==
    /\ df[t].Open_tecl # NaN
    /\ 4 * df[t].Open_tecl * df[t].SMA_tecl.d < 5 * df[t].SMA_tecl.n
    /\ t - 4 >= 1
    /\ df[t - 4].OPEN_vix # NaN
    /\ ~isna(df[t - 4].WMA_vix)
    /\ 25 * df[t - 4].OPEN_vix * df[t - 4].WMA_vix.d > 26 * df[t - 4].WMA_vix.n

BuyRulesInOrder ==
    [][(/\ pos' = pos + 1
        /\ ~in_position
        /\ ~isna(merged_df'[pos'].SMA_tecl) /\ ~isna(merged_df'[pos'].WMA_vix)
        /\ ~(last_sell_date # None /\ merged_df'[pos'].Date = BDay1(last_sell_date)))
       => LET row == merged_df'[pos']
              bought(action) ==
                  /\ in_position'
                  /\ purchase_price' = row.Open_tecl
                  /\ Len(trades') = Len(trades) + 1
                  /\ trades'[Len(trades')].action = action
                  /\ trades'[Len(trades')].price = row.Open_tecl
          IN  IF ExactImmediate(row)
              THEN branch' = "buy_immediate" /\ bought("buy (immediate low TECL)")
              ELSE IF ExactConditional(merged_df', pos')
              THEN branch' = "buy_conditional" /\ bought("buy (with VIX condition)")
              ELSE branch' = "none" /\ UNCHANGED Locals]_vars

ImmediateWinsOverConditional ==
    /\ branch = "buy_immediate"
    /\ ExactConditional(merged_df, pos)
    /\ in_position /\ purchase_price = Row.Open_tecl

\* C12: the worked scenario.  On consecutive business days with Open_tecl
\* 100.00 on rows 1 .. 31, 74.00 on row 32, below 78.29 on rows 33 and 34,
\* 79.30 on row 35 and an immediate-buy price on row 36, the trades of rows
\* 1 .. 36 are exactly an immediate BUY at 74.00 on row 32 and a SELL at
\* 79.30 on row 35 that adds 0.2 * fund * (79.3 / 74 - 1) to the bank; row
\* 36 records no BUY.
WorkedScenario(df) ==
    /\ Len(df) >= 36
    /\ \A t \in 1..31 : df[t].Open_tecl = 10000
    /\ \A t \in 2..36 : df[t].Date = BDay1(df[t - 1].Date)
    /\ df[32].Open_tecl = 7400
    /\ \A t \in 33..34 : df[t].Open_tecl # NaN /\ df[t].Open_tecl < 7829
    /\ df[35].Open_tecl = 7930
    /\ ExactImmediate(df[36])
    /\ NoMissing(df, "OPEN_vix", 1, 36)

WorkedScenarioTrades ==
    WorkedScenario(merged_df) =>
        LET upto36 == SelectSeq(trades, LAMBDA r : r.date <= merged_df[36].Date)
            profit == FracMul(Frac(initial_fund, 1), FracSub(Frac(7930, 7400), Frac(1, 1)))
        IN  /\ Len(upto36) = 2
            /\ upto36[1] = [date |-> merged_df[32].Date,
                             action |-> "buy (immediate low TECL)",
                             price |-> 7400, fund |-> Frac(initial_fund, 1)]
            /\ upto36[2].date = merged_df[35].Date
            /\ upto36[2].action = "sell"
            /\ upto36[2].price = 7930
            /\ upto36[2].fund = FracAdd(Frac(initial_fund, 1), profit)
            /\ upto36[2].bank = FracMul(Frac(2, 10), profit)

WorkedScenarioAcrossWeekend ==
    /\ pos = 36
    /\ WorkedScenario(merged_df)
    /\ branch = "cooldown"
    /\ Weekday(merged_df[35].Date) = 4
    /\ bank = FracMul(Frac(2, 10), FracSub(fund, Frac(initial_fund, 1)))
    /\ bank.n > 0

(***************************************************************************)
(* The live trader.                                                        *)
(***************************************************************************)
InTrace(e) == \E i \in 1..Len(session.trace) : session.trace[i] = e

OrderCalls ==
    {i \in 1..Len(session.trace) :
        session.trace[i] \in {"order BUY", "order BUY raised",
                              "order SELL", "order SELL raised"}}

\* C13: a call of buy_tecl or sell_tecl whose order submit_order refused
\* leaves in_position, purchase_price, purchase_date, position_size and
\* last_sell_date as they were, attempts no save of the state, logs no BUY
\* or SELL event, and returns False.
OrderRefused == InTrace("order BUY raised") \/ InTrace("order SELL raised")

RefusedOrderChangesNothing ==
    [][OrderRefused' =>
          /\ trader' = trader
          /\ broker' = broker
          /\ ~InTrace("save")'
          /\ db'.state_table = db.state_table
          /\ ~InTrace("log BUY")' /\ ~InTrace("log SELL")'
          /\ session'.events \subseteq {[event_type |-> "SIGNAL_CHECK"]}
          /\ session'.returned = "False"]_vars

SellRefusedWhileLong ==
    /\ InTrace("order SELL raised")
    /\ session.outcome = "sell_failed"
    /\ trader.in_position
    /\ broker.position.qty = trader.position_size
    /\ session.returned = "False"

\* C14: a cycle in which a price fetch or a history fetch of TECL or VIX
\* gave nothing in max_retries attempts submits no order and leaves the
\* trader, the account and both tables as they were.
FetchExhausted ==
    \/ InTrace("TECL price exhausted") \/ InTrace("VIX price exhausted")
    \/ InTrace("TECL history exhausted") \/ InTrace("VIX history exhausted")

ExhaustedFetchIsNoSignal ==
    [][FetchExhausted' =>
          /\ trader' = trader
          /\ broker' = broker
          /\ db' = db
          /\ session'.events = {}
          /\ OrderCalls' = {}
          /\ session'.outcome \in {"no_price", "no_history"}]_vars

HistoryExhaustedWhileFlat ==
    /\ session.outcome = "no_history"
    /\ InTrace("VIX history exhausted")
    /\ ~InTrace("TECL history exhausted")
    /\ ~trader.in_position
    /\ Shares(broker.buying_power, 10000) >= 1

\* C15: one cycle submits at most one order: the orders of the account
\* grow by at most one, and the cycle calls place_order at most once (after
\* a SELL attempt no BUY follows, and one BUY rule at most places an order).
AtMostOneOrderPerCycle ==
    [][/\ Len(broker'.orders) <= Len(broker.orders) + 1
       /\ SubSeq(broker'.orders, 1, Len(broker.orders)) = broker.orders
       /\ Cardinality(OrderCalls') <= 1]_vars

SoldAndStopped ==
    /\ session.outcome = "sell"
    /\ Len(broker.orders) = 2
    /\ broker.orders[1].side = "buy"
    /\ broker.orders[2].side = "sell"
    /\ broker.orders[2].day = broker.orders[1].day + 1
    /\ Cardinality(OrderCalls) = 1

\* C16: a trader object whose start-up read the positions of the account
\* is in position exactly when the account holds TECL, with the account's
\* quantity and average entry price, whatever the state table holds; with
\* no TECL in the account it is flat with no size and no purchase price.
SyncFollowsBroker ==
    session.outcome = "synced" =>
        /\ trader.in_position <=> broker.position.qty > 0
        /\ trader.in_position =>
              /\ trader.position_size = broker.position.qty
              /\ trader.purchase_price = broker.position.avg_entry_price
        /\ ~trader.in_position =>
              /\ trader.position_size = 0
              /\ trader.purchase_price = None
              /\ trader.purchase_date = None

StaleSnapshotOverruled ==
    /\ session.outcome = "synced"
    /\ Len(broker.orders) = 2
    /\ broker.position.qty = 0
    /\ \E i \in db.state_table : i.in_position /\ i.position_size.n > 0
    /\ ~trader.in_position

\* C17: in the live loop no BUY order is placed on the next trading day
\* after the day of a SELL.
LiveNoBuyOnDayAfterSell ==
    \A i, j \in 1..Len(broker.orders) :
        (i < j /\ broker.orders[i].side = "sell" /\ broker.orders[j].side = "buy")
            => broker.orders[j].day # BDay1(broker.orders[i].day)

(***************************************************************************)
(* main() on CSV files, annualized_return.                                 *)
(***************************************************************************)
\* The dates of a file: the cells of the column named date_col.
FileDates(file, date_col) ==
    {file.rows[t][i] : t \in 1..Len(file.rows),
                       i \in {k \in 1..Len(file.header) : Strip(file.header[k]) = date_col}}

\* The row of the frame df with the date d.
FrameRowOn(df, d) == df.rows[CHOOSE t \in 1..Len(df.rows) : df.rows[t].Date = d]

\* C18: merged_df as merge_data returns it holds one row for every date
\* that occurs in both files and no other row, in strictly ascending date
\* order, and every value of a row is the value its file has on that date.
MergeIsSortedInnerJoin ==
    mainrun.stage = "merged" =>
        /\ {merged_df[t].Date : t \in 1..Len(merged_df)}
              = FileDates(files.tecl, "Date") \cap FileDates(files.vix, "DATE")
        /\ \A t \in 1..(Len(merged_df) - 1) : merged_df[t].Date < merged_df[t + 1].Date
        /\ \A t \in 1..Len(merged_df) :
              /\ DOMAIN merged_df[t] = mainrun.tecl_df.columns \cup mainrun.vix_df.columns
              /\ \A c \in mainrun.tecl_df.columns :
                    merged_df[t][c] = FrameRowOn(mainrun.tecl_df, merged_df[t].Date)[c]
              /\ \A c \in mainrun.vix_df.columns :
                    merged_df[t][c] = FrameRowOn(mainrun.vix_df, merged_df[t].Date)[c]

MergedOutOfOrderWithGap ==
    /\ mainrun.stage = "merged"
    /\ Len(files.tecl.rows) = 3
    /\ files.tecl.rows[1][1] > files.tecl.rows[2][1]
    /\ Len(files.vix.rows) = 2
    /\ Len(merged_df) = 2
    /\ merged_df[2].Date = merged_df[1].Date + 2
    /\ merged_df[1].Open_tecl = TeclOpenOn(merged_df[1].Date)
    /\ merged_df[2].OPEN_vix = VixOpenOn(merged_df[2].Date)

\* C19: a run whose TECL or VIX file lacks the date column or the open
\* column ends with an error before the loop of backtest_trading passes a
\* row: at load_data when a date column is missing, at
\* calculate_indicators when an open column is.
HasColumn(file, name) == \E i \in 1..Len(file.header) : Strip(file.header[i]) = name

MissingDate == ~HasColumn(files.tecl, "Date") \/ ~HasColumn(files.vix, "DATE")

MissingOpen == ~HasColumn(files.tecl, "Open") \/ ~HasColumn(files.vix, "OPEN")

MissingColumnFailsFast ==
    [][(mainrun.stage # "idle" /\ (MissingDate \/ MissingOpen)) =>
          /\ pos' = 0
          /\ trades' = <<>>
          /\ mainrun'.stage \in {"loaded", "merged", "failed"}
          /\ mainrun'.stage = "failed" => mainrun'.error \in {"ValueError", "KeyError"}
          /\ MissingDate => mainrun'.stage = "failed" /\ mainrun'.error = "ValueError"
          /\ mainrun.stage = "merged" =>
                mainrun'.stage = "failed" /\ mainrun'.error = "KeyError"]_vars

MissingOpenFailsAfterMerge ==
    /\ mainrun.stage = "failed"
    /\ mainrun.error = "KeyError"
    /\ ~HasColumn(files.vix, "OPEN")
    /\ HasColumn(files.tecl, "Open")
    /\ Len(merged_df) = 3
    /\ pos = 0

\* C20: annualized_return never returns an ordinary percentage when
\* end_date is on or before start_date or starting_fund is zero or less.
UndefinedReturnIsExplicit ==
    (/\ annual.result # NoResult
     /\ \/ annual.args.end_date <= annual.args.start_date
        \/ annual.args.starting_fund.n <= 0)
        => annual.result.kind # "float"

\* The call annualized_return(10000, 20000, "2020-01-01", "2021-01-01") has
\* returned: the dates count in days from 2020-01-01, 2020 is a leap year.
DoubledInOneYear ==
    /\ annual.args = [starting_fund |-> Frac(10000, 1), final_fund |-> Frac(20000, 1),
                      start_date |-> 0, end_date |-> 366]
    /\ annual.result # NoResult

\* C21: annualized_return(10000, 20000, "2020-01-01", "2021-01-01") is
\* ((final_fund / starting_fund) ** (1 / years) - 1) * 100 with years =
\* 366 / 365.25, which is 99.72 percent to within a hundredth: capital
\* doubled in a little over one year of 365.25 days.
DoubledReturnIs9972 ==
    DoubledInOneYear =>
        /\ annual.result.kind = "float"
        /\ annual.result.base = Frac(2, 1)
        /\ annual.result.exponent = Frac(36525, 36600)
        /\ ReturnAbove(annual.result, 9971, 100)
        /\ ~ReturnAbove(annual.result, 9973, 100)

\* C21 as stated: the same call returns 100.27 percent to within a
\* hundredth.
DoubledReturnIs10027 ==
    DoubledInOneYear =>
        /\ annual.result.kind = "float"
        /\ ReturnAbove(annual.result, 10026, 100)
        /\ ~ReturnAbove(annual.result, 10028, 100)

\* The first day after day d that is a Monday to Friday.
NextWeekdayAfter(d) ==
    CHOOSE e \in (d + 1)..(d + 3) :
        /\ Weekday(e) \in 0..4
        /\ \A f \in (d + 1)..(e - 1) : Weekday(f) \notin 0..4

Spiked(row) ==
    /\ row.OPEN_vix # NaN
    /\ ~isna(row.WMA_vix)
    /\ 25 * row.OPEN_vix * row.WMA_vix.d > 26 * row.WMA_vix.n

\* price < 0.75 * sma and price < 1.25 * sma, in exact arithmetic.
ExactlyBelowLow(price, sma) == ~isna(sma) /\ 4 * price * sma.d < 3 * sma.n
ExactlyBelowHigh(price, sma) == ~isna(sma) /\ 4 * price * sma.d < 5 * sma.n

\* The series up to the row the loop passes next, with the indicators the
\* live cycle of that day computes from its histories.
TwinIndicators == calculate_indicators(SubSeq(alt_df, 1, pos + 1))

\* The step is a trading session that reached its decision.
Decided == pos' = pos /\ session' # session /\ InTrace("log SIGNAL_CHECK")'

\* C23: the conditional buy reads OPEN_vix and WMA_vix of the row four
\* positions before the row decided on, whatever the dates between them.
\* In backtest_trading a FLAT row below 1.25 * sma that is no immediate
\* buy buys exactly when the row at position T - 4 exists and has
\* OPEN_vix > 1.04 * WMA_vix, and the trade records that row.  In the live
\* cycle the decision on the last row of the history calls buy_tecl for
\* the VIX rule exactly when the fifth row from the end has.
LagIsFourPositions ==
    [][/\ (pos' = pos + 1 /\ branch' \in {"buy_conditional", "none"}
            /\ ExactlyBelowHigh(merged_df'[pos'].Open_tecl, merged_df'[pos'].SMA_tecl))
          => /\ (branch' = "buy_conditional")
                   <=> (pos' - 4 >= 1 /\ Spiked(merged_df'[pos' - 4]))
             /\ branch' = "buy_conditional" =>
                   LET rec == trades'[Len(trades')]
                       lag == merged_df'[pos' - 4]
                   IN  /\ rec.prev_date = lag.Date
                       /\ rec.prev_vix = lag.OPEN_vix
                       /\ rec.prev_WMA_vix = lag.WMA_vix
       /\ (Decided /\ ~trader.in_position
            /\ ~ExactlyBelowLow(alt_df[pos + 1].Open_tecl, TwinIndicators[pos + 1].SMA_tecl)
            /\ ExactlyBelowHigh(alt_df[pos + 1].Open_tecl, TwinIndicators[pos + 1].SMA_tecl))
          => IF pos + 1 >= 5 /\ Spiked(TwinIndicators[pos + 1 - 4])
             THEN session'.outcome \in {"buy_conditional", "insufficient", "buy_failed",
                                        "raised"}
             ELSE session'.outcome = "none"
       /\ (pos' = pos /\ session'.outcome = "buy_conditional")
          => /\ pos + 1 >= 5
             /\ Spiked(TwinIndicators[pos + 1 - 4])]_vars

\* Both bought on the VIX rule on a row whose fourth row back lies five
\* business days earlier.
ConditionalBuyAcrossHoliday ==
    /\ pos >= 5
    /\ branch = "buy_conditional"
    /\ session.outcome = "buy_conditional"
    /\ now = Row.Date
    /\ Row.Date # NextWeekdayAfter(NextWeekdayAfter(NextWeekdayAfter(
                       NextWeekdayAfter(merged_df[pos - 4].Date))))
    /\ trades[Len(trades)].prev_date = merged_df[pos - 4].Date

TwinCycle == pos' = pos /\ session' # session /\ session.outcome \in {"synced", "sync_failed"}

LiveCycle == now' = now /\ session'.outcome \notin {"synced", "sync_failed", "idle"}

\* The step submitted an order that the broker accepted.
Submitted == LiveCycle /\ Len(broker'.orders) = Len(broker.orders) + 1

LastOrder == broker.orders[Len(broker.orders)]

\* C26: on one trader object buy_tecl submits an order only while
\* in_position is false and sell_tecl only while it is true; a SELL orders
\* the position_size the object holds; and an accepted order never follows
\* an accepted order of the same side placed by the preceding cycle of
\* the object.
OrdersAlternate ==
    [][LiveCycle =>
          /\ (InTrace("order BUY")' \/ InTrace("order BUY raised")') => ~trader.in_position
          /\ (InTrace("order SELL")' \/ InTrace("order SELL raised")') => trader.in_position
          /\ Submitted =>
                /\ LastOrder'.side = "buy" => ~InTrace("order BUY")
                /\ LastOrder'.side = "sell" =>
                      /\ LastOrder'.qty = trader.position_size
                      /\ ~InTrace("order SELL")]_vars

\* The guards of buy_tecl and sell_tecl and the quantity of a SELL alone.
OrdersFollowPosition ==
    [][LiveCycle =>
          /\ (InTrace("order BUY")' \/ InTrace("order BUY raised")') => ~trader.in_position
          /\ (InTrace("order SELL")' \/ InTrace("order SELL raised")') => trader.in_position
          /\ (Submitted /\ LastOrder'.side = "sell") =>
                LastOrder'.qty = trader.position_size]_vars

\* The calls es were made one right after the other, in that order.
InOrder(es) ==
    \E i \in 0..Len(session.trace) - Len(es) :
        \A k \in 1..Len(es) : session.trace[i + k] = es[k]

\* The state table was left alone or holds the trader's fields.
SavedOrNot ==
    \/ db' = db
    \/ StateItems(db'.state_table, "main") = {StateItem(trader', "main", None)}

\* C27: in a live cycle an accepted order is followed, in the same cycle,
\* by the state transition and then by a save of the new state: after an
\* accepted SELL the SELL event is logged, the position is cleared and the
\* state saved; after an accepted BUY the position is set, the state saved
\* and then the BUY event logged.
SaveFollowsOrder ==
    [][LiveCycle =>
          /\ InTrace("order SELL")' =>
                /\ InOrder(<<"order SELL", "log SELL", "clear", "save">>)'
                /\ ~trader'.in_position
                /\ SavedOrNot
          /\ InTrace("order BUY")' =>
                /\ \E failed \in {<<>>, <<"save failed">>},
                      logged \in {"log BUY", "log BUY raised"} :
                         InOrder(<<"order BUY", "set", "save">> \o failed \o <<logged>>)'
                /\ trader'.in_position
                /\ SavedOrNot]_vars

\* The same for the cycles whose SELL event write did not raise.
SaveFollowsLoggedOrder ==
    [][LiveCycle =>
          /\ (InTrace("order SELL")' /\ ~InTrace("log SELL raised")') =>
                /\ InOrder(<<"order SELL", "log SELL", "clear", "save">>)'
                /\ ~trader'.in_position
                /\ SavedOrNot
          /\ InTrace("order BUY")' =>
                /\ \E failed \in {<<>>, <<"save failed">>},
                      logged \in {"log BUY", "log BUY raised"} :
                         InOrder(<<"order BUY", "set", "save">> \o failed \o <<logged>>)'
                /\ trader'.in_position
                /\ SavedOrNot]_vars

\* The fields of the trader after the transition of an accepted order.
Bought ==
    /\ trader'.in_position
    /\ trader'.position_size = LastOrder'.qty
    /\ trader'.purchase_date = now
    /\ trader'.last_sell_date = trader.last_sell_date

Sold ==
    trader' = [in_position |-> FALSE, purchase_price |-> None, purchase_date |-> None,
               position_size |-> 0, last_sell_date |-> now]

\* C28: a save of the state that fails after an accepted order leaves the
\* transition of the trader object in place and the table as it was, and
\* the trade is no failure: sell_tecl returns True, and so does buy_tecl
\* (whose BUY event write comes after the save and may still raise); the
\* next cycle on the object decides from the object's fields, a trader in
\* position placing no BUY order and a flat one no SELL order, and no
\* order at all on the day of its sale.
FailedSaveKeepsTheTrade ==
    [][LiveCycle =>
          /\ InTrace("save failed")' =>
                /\ Submitted
                /\ IF LastOrder'.side = "buy" THEN Bought ELSE Sold
                /\ db'.state_table = db.state_table
                /\ session'.returned # "False"
                /\ session'.returned = "True" \/ InTrace("log BUY raised")'
                /\ session'.outcome \in {"sell", "buy_immediate", "buy_conditional", "raised"}
          /\ InTrace("save failed") =>
                /\ trader.in_position =>
                      /\ ~InTrace("order BUY")' /\ ~InTrace("order BUY raised")'
                      /\ InTrace("log SIGNAL_CHECK")' =>
                            session'.outcome \in {"sell", "sell_failed", "raised", "hold"}
                /\ ~trader.in_position =>
                      /\ ~InTrace("order SELL")' /\ ~InTrace("order SELL raised")'
                      /\ (InTrace("log SIGNAL_CHECK")' /\ trader.last_sell_date = now) =>
                            session'.outcome = "sold_today"]_vars

\* A trader whose BUY and whose SELL were both accepted and never saved:
\* the table is still empty, and the SELL came from the object's fields.
SoldWhatWasNeverSaved ==
    /\ Len(broker.orders) = 2
    /\ broker.orders[1].side = "buy"
    /\ broker.orders[2].side = "sell"
    /\ broker.orders[2].qty = broker.orders[1].qty
    /\ db.state_table = {}
    /\ InTrace("save failed")
    /\ session.returned = "True"
    /\ ~trader.in_position

\* The attempts of the call that came back with data.
Answered == {k \in 1..max_retries : fetch.answers[k].kind = "data"}

\* C29: get_current_price and get_historical_data return after at most
\* max_retries attempts: the data of the first attempt that brought any,
\* with no attempt after it; and None, or an empty frame, after max_retries
\* attempts of which none brought data, whether they came back empty or
\* raised.
FetchReturnsWithinRetries ==
    fetch.returned =>
       /\ fetch.result.tries \in 1..max_retries
       /\ IF Answered = {}
          THEN /\ fetch.result.tries = max_retries
               /\ fetch.result.value = IF fetch.what = "price" THEN None ELSE <<>>
          ELSE /\ fetch.result.tries \in Answered
               /\ \A k \in Answered : fetch.result.tries <= k
               /\ fetch.result.value = fetch.answers[fetch.result.tries].value
               /\ fetch.result.value # (IF fetch.what = "price" THEN None ELSE <<>>)

\* A price that came on the last attempt, after a rate limit and an empty
\* answer.
PriceOnLastAttempt ==
    /\ fetch.returned
    /\ fetch.what = "price"
    /\ fetch.answers[1].kind = "rate_limit"
    /\ fetch.answers[2].kind = "empty"
    /\ fetch.answers[max_retries].kind = "data"
    /\ fetch.result.value = fetch.answers[max_retries].value
    /\ fetch.result.tries = max_retries

\* The branch the loop of backtest_trading takes on the row it passes
\* next.
TwinBranch ==
    Branch(State,
           Append(merged_df,
                  calculate_indicators(Append(merged_df, alt_df[pos + 1]))[pos + 1]),
           pos + 1)

\* No sale on the day or on the business day before it.
NoRecentSell(d) == d = None \/ (d # now /\ BDay1(d) # now)

\* The cycle called buy_tecl, and buy_tecl went on to the account.
BuyCalled == InTrace("account raised") \/ InTrace("order BUY")

\* C30: a live cycle and the loop of backtest_trading that decide on the
\* same row (the same price, sma and wma, and the same OPEN_vix and
\* WMA_vix four rows back), from the same position and with no sale on
\* the day or the business day before, take the same action, provided
\* the order is accepted and one share can be paid: both sell, both buy
\* on the immediate rule, both buy on the VIX rule, or neither acts.  (A
\* cycle whose buy_tecl raised tells a buy, not the rule it came from.)
SameActionAsBacktest ==
    [][(/\ Decided
        /\ ~isna(TwinIndicators[pos + 1].SMA_tecl)
        /\ ~isna(TwinIndicators[pos + 1].WMA_vix)
        /\ trader.in_position = in_position
        /\ in_position => trader.purchase_price = purchase_price
        /\ NoRecentSell(last_sell_date)
        /\ NoRecentSell(trader.last_sell_date)
        /\ ~InTrace("order SELL raised")' /\ ~InTrace("order BUY raised")'
        /\ in_position \/ broker.buying_power * position_size_limit.n
                             >= alt_df[pos + 1].Open_tecl * position_size_limit.d)
       => /\ TwinBranch \in {"sell", "hold", "buy_immediate", "buy_conditional", "none"}
          /\ TwinBranch = "sell" <=> InTrace("order SELL")'
          /\ TwinBranch = "buy_immediate" <=>
                \/ session'.outcome = "buy_immediate"
                \/ session'.outcome = "raised" /\ BuyCalled'
                      /\ ImmediateSignal(alt_df[pos + 1].Open_tecl,
                                         TwinIndicators[pos + 1].SMA_tecl)
          /\ TwinBranch = "buy_conditional" <=>
                \/ session'.outcome = "buy_conditional"
                \/ session'.outcome = "raised" /\ BuyCalled'
                      /\ ~ImmediateSignal(alt_df[pos + 1].Open_tecl,
                                          TwinIndicators[pos + 1].SMA_tecl)
          /\ TwinBranch \in {"hold", "none"} <=> session'.outcome \in {"hold", "none"}]_vars

\* Both bought on the immediate rule on a row that the VIX rule would
\* have bought too, every input of the decision present.
BothBoughtImmediately ==
    /\ pos >= 5
    /\ now = Row.Date
    /\ branch = "buy_immediate"
    /\ session.outcome = "buy_immediate"
    /\ ~isna(merged_df[pos - 4].WMA_vix)
    /\ Spiked(merged_df[pos - 4])
    /\ ExactlyBelowHigh(Row.Open_tecl, Row.SMA_tecl)

(***************************************************************************)
(* Persistence through DynamoDBHandler (SpecStore).                        *)
(***************************************************************************)

\* The initial_capital the table holds for a trader identifier, if any.
StoredCapital(table, trader_id) ==
    {i.initial_capital :
        i \in {j \in StateItems(table, trader_id) : "initial_capital" \in DOMAIN j}}

\* A save_state call that returned True and passed no initial_capital.
SavedWithoutCapital ==
    /\ handler'.call = "save_state"
    /\ handler'.returned = "True"
    /\ handler'.initial_capital = None

\* C31: initial_capital is set once: when the table holds an
\* initial_capital for a trader identifier, a successful save_state call
\* for that identifier that passes no initial_capital leaves the stored
\* initial_capital as it was, whatever the reads of the table answer.
CapitalSetOnce ==
    [][(SavedWithoutCapital /\ StoredCapital(db.state_table, handler'.trader_id) # {})
       => StoredCapital(db'.state_table, handler'.trader_id)
             = StoredCapital(db.state_table, handler'.trader_id)]_vars

\* The part of C31 that holds: the stored initial_capital is kept by
\* every such save whose own read of the item was answered.
CapitalKeptWhenRead ==
    [][(/\ SavedWithoutCapital
        /\ handler'.load = "ok"
        /\ StoredCapital(db.state_table, handler'.trader_id) # {})
       => StoredCapital(db'.state_table, handler'.trader_id)
             = StoredCapital(db.state_table, handler'.trader_id)]_vars

\* C32: after a save_state call that returned True, load_state of the same
\* trader identifier returns the five saved values (position_size as the
\* float of the saved int) without the trader_id key, and what load_state
\* returns for every other identifier is what it returned before the save.
RoundTripPerTrader ==
    [][(handler'.call = "save_state" /\ handler'.returned = "True")
       => /\ \E e \in load_state(db', handler'.trader_id, "ok") :
                /\ load_state(db', handler'.trader_id, "ok") = {e}
                /\ "trader_id" \notin DOMAIN e
                /\ e.in_position = handler'.args.in_position
                /\ e.purchase_price = handler'.args.purchase_price
                /\ e.purchase_date = handler'.args.purchase_date
                /\ e.position_size = FloatOf(handler'.args.position_size)
                /\ e.last_sell_date = handler'.args.last_sell_date
          /\ \A other \in TraderIds \ {handler'.trader_id} :
                load_state(db', other, "ok") = load_state(db, other, "ok")]_vars

\* load_state("test") returns the state of test_dynamodb.py (115.50, 100
\* shares) while the table holds another state under "main".
LoadedTheTestState ==
    /\ handler.call = "load_state"
    /\ handler.trader_id = "test"
    /\ \E e \in handler.state :
          /\ e.in_position
          /\ e.purchase_price = 11550
          /\ e.position_size = FloatOf(100)
    /\ \E i \in StateItems(db.state_table, "main") :
          i.in_position /\ i.purchase_price = DecimalOfStr(7001)

(***************************************************************************)
(* The session around the signals (SpecLive).                              *)
(***************************************************************************)

\* The steps of a session that can raise into run_trading_session:
\* get_clock, get_account_info and the write of an event.
SessionRaises ==
    {"clock raised", "account raised", "log SIGNAL_CHECK raised", "log BUY raised",
     "log SELL raised"}

RaisedInSession == \E e \in SessionRaises : InTrace(e)

\* C33: a run_trading_session call that finds the market closed checks no
\* signal, places no order and leaves the trader, the broker and the
\* tables as they were; a call in which an exception is raised ends there,
\* as a caught error, and a call that ends as a caught error is one in
\* which an exception was raised.
ClosedSessionDoesNothing ==
    [][LiveCycle
       => /\ InTrace("clock closed")' =>
                /\ trader' = trader
                /\ broker' = broker
                /\ db' = db
                /\ session'.trace = <<"clock closed">>
                /\ session'.events = {}
                /\ session'.returned = "none"
                /\ session'.outcome = "closed"
          /\ RaisedInSession' <=> session'.outcome = "raised"
          /\ RaisedInSession' =>
                session'.trace[Len(session'.trace)] \in SessionRaises]_vars

\* A trader that holds what an earlier cycle bought finds the market
\* closed.
ClosedWhileLong ==
    /\ session.outcome = "closed"
    /\ trader.in_position
    /\ broker.orders # <<>>
    /\ Weekday(now) < 5

(***************************************************************************)
(* The scheduler (FairScheduler).                                          *)
(***************************************************************************)

\* Seconds since midnight of a reading of the clock.
SecondOfDay(t) == 3600 * t.hour + 60 * t.minute + t.second

\* Monday to Friday from 9:30:00 to 16:00:00 sharp, both ends included.
InMarketHours(t) ==
    /\ Weekday(t.day) \in 0..4
    /\ SecondOfDay(t) >= 34200
    /\ SecondOfDay(t) < 57600 \/ (SecondOfDay(t) = 57600 /\ t.microsecond = 0)

\* The reading of the clock of the scheduler.
SchedulerNow == SchedulerClock[scheduler.tick]

\* C34: run_trading_check creates a trader and runs a session only in
\* market hours (Monday to Friday from 9:30 to 16:00 Eastern, both ends
\* included), and skips the check exactly outside them; a check that
\* failed is followed by a later check unless the user stops the
\* scheduler.
ChecksInMarketHoursForEver ==
    /\ [][/\ (\/ trader' # trader \/ session' # session \/ broker' # broker
              \/ db' # db \/ scheduler'.pc = "created")
             => InMarketHours(SchedulerNow)
          /\ scheduler'.round # scheduler.round
             => (scheduler'.last = "skipped" <=> ~InMarketHours(SchedulerNow))]_vars
    /\ \A round \in {0, 1} :
          (scheduler.last = "failed" /\ scheduler.round = round)
             ~> (scheduler.round # round \/ scheduler.pc = "stopped")

\* A check at 9:30:00 sharp that sold the position, run after a check that
\* failed.
CheckedAtTheOpenAfterAFailure ==
    /\ scheduler.before = "failed"
    /\ scheduler.last = "completed"
    /\ SchedulerNow = [day |-> 1, hour |-> 9, minute |-> 30, second |-> 0, microsecond |-> 0]
    /\ broker.orders # <<>>

(***************************************************************************)
(* The books of backtest_trading (Spec).                                   *)
(***************************************************************************)

\* a <= b on two exact amounts.
AtMost(a, b) == FracSub(b, a).n >= 0

PositionPriceConsistent ==
    /\ in_position <=> purchase_price # None
    /\ alt_state.in_position <=> alt_state.purchase_price # None
    /\ trader.in_position <=> trader.purchase_price # None
    /\ trader.in_position => trader.position_size >= 1
    /\ ~trader.in_position => trader.position_size = 0

\* The loop and a live trader both bought on the row: the trader holds the
\* shares it ordered at the open of the row, the loop holds the same price.
BothHoldTheRow ==
    /\ pos > N
    /\ in_position
    /\ purchase_price = Row.Open_tecl
    /\ InTrace("order BUY")
    /\ trader.in_position
    /\ trader.purchase_price = Row.Open_tecl
    /\ trader.position_size >= 1

\* The fund of the last SELL event of a list of events, initial_fund when
\* there is none.
FundOfLastSell(events) ==
    IF \E i \in 1..Len(events) : IsSell(events[i])
    THEN events[CHOOSE i \in 1..Len(events) :
                    IsSell(events[i]) /\ \A j \in (i + 1)..Len(events) : ~IsSell(events[j])].fund
    ELSE Frac(initial_fund, 1)

\* C37: a BUY of backtest_trading, immediate or conditional, leaves fund,
\* bank and last_sell_date as they were, and the fund of its event is the
\* fund of the most recent SELL event, initial_fund when nothing was sold.
BuyLeavesTheBooks ==
    [][branch' \in {"buy_immediate", "buy_conditional"}
       => /\ UNCHANGED <<fund, bank, last_sell_date>>
          /\ Len(trades') = Len(trades) + 1
          /\ IsBuy(trades'[Len(trades')])
          /\ trades'[Len(trades')].fund = FundOfLastSell(trades)
          /\ trades'[Len(trades')].fund = fund]_vars

\* A conditional buy after a sale: its event carries the fund of the sale,
\* 11,000.
BoughtAgainWithTheProceeds ==
    /\ branch = "buy_conditional"
    /\ Len(trades) = 3
    /\ IsSell(trades[2])
    /\ trades[3].fund = Frac(11000, 1)
    /\ trades[3].fund = trades[2].fund

\* C38: a conditional buy of backtest_trading fires only on a row whose
\* row four positions earlier has a wma, so not before row N + 5: on rows
\* N + 1 .. N + 4 a position is opened by the immediate rule alone.
ConditionalBuyNeedsEarlierWma ==
    [][/\ branch' = "buy_conditional" =>
             /\ pos' >= N + 5
             /\ ~isna(merged_df'[pos' - 4].WMA_vix)
       /\ (pos' \in (N + 1)..(N + 4) /\ in_position' /\ ~in_position) =>
             /\ branch' = "buy_immediate"
             /\ IsBuy(trades'[Len(trades')])
             /\ trades'[Len(trades')].action = "buy (immediate low TECL)"]_vars

\* Row N + 1 has its indicators, the loop is flat and TECL opens below
\* 1.25 times its sma but not below 0.75 times: the conditional rule is
\* reached, the row four positions earlier has no wma, nothing is bought.
ConditionalRuleWithoutEarlierWma ==
    /\ pos = N + 1
    /\ branch = "none"
    /\ ~in_position
    /\ ~isna(Row.SMA_tecl) /\ ~isna(Row.WMA_vix)
    /\ BelowHigh(Row.Open_tecl, Row.SMA_tecl)
    /\ ~ImmediateSignal(Row.Open_tecl, Row.SMA_tecl)
    /\ isna(merged_df[pos - 4].WMA_vix)
    /\ merged_df[pos - 4].OPEN_vix # NaN

\* The trader object holds TECL or has sold today.
HoldsOrSoldToday == trader.in_position \/ trader.last_sell_date = now

\* C39: on one AlpacaLiveTrader object no BUY order follows an accepted
\* SELL order on the calendar day of the sale.  The cycle of an accepted
\* SELL leaves the object holding or sold today, and a cycle that starts
\* on an object holding or sold today sends no BUY order and ends on an
\* object holding or sold today.
NoBuyOnTheDayOfASale ==
    [][LiveCycle
       => /\ InTrace("order SELL")' => HoldsOrSoldToday'
          /\ HoldsOrSoldToday =>
                /\ ~InTrace("order BUY")' /\ ~InTrace("order BUY raised")'
                /\ \A k \in 1..Len(broker'.orders) :
                      k > Len(broker.orders) => broker'.orders[k].side = "sell"
                /\ HoldsOrSoldToday']_vars

\* A later cycle on the object that sold today sees TECL far below its sma
\* and buys nothing.
LowPriceOnTheDayOfTheSale ==
    /\ session.outcome = "sold_today"
    /\ ~trader.in_position
    /\ trader.last_sell_date = now
    /\ broker.orders # <<>>
    /\ LastOrder.side = "sell"
    /\ LastOrder.day = now
    /\ \E e \in session.events : e.event_type = "SIGNAL_CHECK"

(***************************************************************************)
(* The backoff of the fetches (SpecFetch).                                 *)
(***************************************************************************)

\* Every attempt of the call raised an error of the given kind.
AllAttempts(kind) ==
    /\ fetch.returned
    /\ \A k \in 1..max_retries : fetch.answers[k].kind = kind

\* C40: when every attempt is rate limited the call sleeps 15, 45 and 90
\* seconds in get_current_price and 20, 60 and 120 seconds in
\* get_historical_data; after an error that is no rate limit it sleeps 10
\* seconds.
BackoffSchedule ==
    /\ AllAttempts("rate_limit") =>
          fetch.result.waits = IF fetch.what = "price" THEN <<15, 45, 90>>
                               ELSE <<20, 60, 120>>
    /\ AllAttempts("error") =>
          \A i \in 1..Len(fetch.result.waits) : fetch.result.waits[i] = 10

\* What the loops do: a sleep follows every raised error but the one of the
\* last attempt, of 15 and 45 seconds (20 and 60 for the history) after a
\* rate limit and of 10 seconds after another error.
BackoffAsCoded ==
    /\ AllAttempts("rate_limit") =>
          fetch.result.waits = IF fetch.what = "price" THEN <<15, 45>> ELSE <<20, 60>>
    /\ AllAttempts("error") => fetch.result.waits = <<10, 10>>

====
